---- MODULE Spec2Model ----
(***************************************************************************)
(* A model of the metadata store schema layer of zenml                     *)
(* (src/src/zenml/zen_stores/schemas): the tables the schemas declare, the *)
(* foreign keys and relationships with their deletion policies, and the    *)
(* mapping functions between domain models and rows.                       *)
(*                                                                         *)
(* Spec     the relational store: inserts and deletes of rows under the    *)
(*          declared foreign keys, primary keys and cascades.              *)
(* SpecMap  the mapping functions (from_create_model, from_update_model,   *)
(*          update, to_model) called on one schema instance, with the      *)
(*          configuration codec (json, utf-8, base64) computed as python   *)
(*          computes it.                                                   *)
(* SpecStack  StackSchema.update called on a loaded stack row.             *)
(***************************************************************************)
EXTENDS Integers, Naturals, Sequences, FiniteSets, TLC

(***************************************************************************)
(* Bounds of the model: how many ids of each table exist.                  *)
(***************************************************************************)
MaxProjects == 2
MaxUsers == 1
MaxTeams == 1
MaxRoles == 1
MaxStacks == 1
MaxComponents == 1
MaxAssignments == 1
MaxPipelines == 1
MaxRuns == 1
\* How many rows the child tables hold together.
MaxRows == 3
\* the readings of the clock (datetime.now()) are 0..MaxTime
MaxTime == 1

\* None: the value of a nullable column that holds no reference.
NULL == 0

ProjectIds == 1..MaxProjects
UserIds == 1..MaxUsers
TeamIds == 1..MaxTeams
RoleIds == 1..MaxRoles
StackIds == 1..MaxStacks
ComponentIds == 1..MaxComponents
AssignmentIds == 1..MaxAssignments
PipelineIds == 1..MaxPipelines
\* PermissionType: the names a role permission can carry
PermissionTypes == {"read", "write"}
RunIds == 1..MaxRuns

VARIABLES
    db,           \* the committed rows, one field per table (named by __tablename__)
    last,         \* the last operation: its name, its outcome, the dependents it met
    schema,       \* the schema instance (a row object) the mapping functions work on
    returned,     \* the domain model the last to_model returned
    call,         \* the last call: its name, its error, its argument
    now,          \* the clock
    debug,        \* __debug__: whether python executes assert statements
    field_order,  \* the order in which StackUpdateModel declares its fields
    tx,           \* the sessions that update one committed row, and that row
    pending,      \* the delete a transaction is carrying out, and its working copy
    environ,      \* os.environ: ZENML_CONFIG_PATH and ZENML_ANALYTICS_OPT_IN
    gc,           \* the GlobalConfiguration singleton instance
    client,       \* the Client singleton instance
    contexts,     \* the open connect contexts, innermost last, with what each saved
    config_dirs,  \* the deployments whose global config directory exists
    cls_harness,  \* TestHarness._harness: the singleton instance (0: None)
    harness,      \* the TestHarness instances constructed so far, by identity
    hpc,          \* where the TestHarness() call that constructs the instance is
    hcall,        \* the last call on the harness: its name, argument, error, result
    compiles,     \* how many times TestHarness.compile was entered
    container,    \* the docker container with the deployment's container name
    dpc,          \* where the call of LocalDockerTestDeployment.up / down is
    started,      \* how many containers containers.run has started
    env_deployment, \* the deployment of the test environment: its kind, whether it runs
    store_components, \* the stack components registered in the deployment's store
    requirements, \* the stack requirements of the environment / test configuration
    epc,          \* where the TestEnvironment.setup context is, with its arguments
    elog,         \* what the last environment call did, in order
    stacks,       \* the stacks registered in the deployment's store
    active_stack, \* the client's active stack
    tpc           \* where the setup_test_stack context is, with what it saved

dbVars == <<db, last>>
mapVars == <<schema, returned, call, now, debug, field_order>>
txVars == <<tx, pending>>
storeVars == <<db, last, schema, returned, call, now, debug, field_order, tx, pending>>
connectVars == <<environ, gc, client, contexts, config_dirs>>
singletonVars == <<cls_harness, harness, hpc, hcall, compiles>>
dockerVars == <<container, dpc, started>>
envVars == <<env_deployment, store_components, requirements, epc, elog>>
stackVars == <<stacks, active_stack, tpc>>
harnessVars == <<connectVars, singletonVars, dockerVars, envVars, stackVars>>
exceptSingleton == <<storeVars, connectVars, dockerVars, envVars, stackVars>>
exceptDocker == <<storeVars, connectVars, singletonVars, envVars, stackVars>>
vars == <<storeVars, harnessVars>>

\* an environment variable that is not set
Unset == "<unset>"

\* the test harness before anything is called
ConnectIdle ==
    /\ environ = [ZENML_CONFIG_PATH |-> Unset, ZENML_ANALYTICS_OPT_IN |-> Unset]
    /\ gc = 0
    /\ client = 0
    /\ contexts = <<>>
    /\ config_dirs = {}

SingletonIdle ==
    /\ cls_harness = 0
    /\ harness = <<>>
    /\ hpc = [pc |-> "idle", step |-> 0, todo |-> <<>>, built |-> <<>>]
    /\ hcall = [op |-> "none"]
    /\ compiles = 0

NoContainer == [status |-> "absent", auto_remove |-> FALSE]

DockerIdle ==
    /\ container = NoContainer
    /\ dpc = [op |-> "none", pc |-> "idle", caller |-> "none", err |-> "none"]
    /\ started = 0

EnvIdle ==
    /\ env_deployment = [kind |-> "default", running |-> TRUE, locked |-> FALSE]
    /\ store_components = {}
    /\ requirements = <<>>
    /\ epc = [pc |-> "idle"]
    /\ elog = [op |-> "init", err |-> "none", did |-> <<>>, raised |-> "none"]

StackIdle ==
    /\ stacks = {}
    /\ active_stack = 0
    /\ tpc = [pc |-> "idle"]

HarnessIdle ==
    /\ ConnectIdle
    /\ SingletonIdle
    /\ DockerIdle
    /\ EnvIdle
    /\ StackIdle

None == <<>>
Some(v) == <<v>>
NoSchema == [kind |-> "none"]
NoModel == [kind |-> "none"]
NoTx == [row |-> NoSchema, s |-> <<>>, order |-> <<>>]
NoPending == [op |-> "none"]

(***************************************************************************)
(* Foreign key columns, as build_foreign_key_field declares them.          *)
(***************************************************************************)
\* stack_id declared as a plain key column, without a foreign key.
StackCompositionSchema_stack_id_NoForeignKey ==
    [target |-> "", ondelete |-> "", nullable |-> FALSE, primary_key |-> TRUE]

StackCompositionSchema_stack_id ==
    [target |-> "stack", ondelete |-> "CASCADE", nullable |-> FALSE, primary_key |-> TRUE]

StackCompositionSchema_component_id ==
    [target |-> "stack_component", ondelete |-> "CASCADE", nullable |-> FALSE, primary_key |-> TRUE]

\* project_id declared optional, cleared when the project goes.
StackSchema_project_id_Nullable ==
    [target |-> "project", ondelete |-> "SET NULL", nullable |-> TRUE, primary_key |-> FALSE]

StackSchema_project_id ==
    [target |-> "project", ondelete |-> "CASCADE", nullable |-> FALSE, primary_key |-> FALSE]

StackSchema_user_id ==
    [target |-> "user", ondelete |-> "SET NULL", nullable |-> TRUE, primary_key |-> FALSE]

StackComponentSchema_project_id ==
    [target |-> "project", ondelete |-> "CASCADE", nullable |-> FALSE, primary_key |-> FALSE]

StackComponentSchema_user_id ==
    [target |-> "user", ondelete |-> "SET NULL", nullable |-> TRUE, primary_key |-> FALSE]

UserRoleAssignmentSchema_role_id ==
    [target |-> "role", ondelete |-> "CASCADE", nullable |-> FALSE, primary_key |-> FALSE]

UserRoleAssignmentSchema_user_id ==
    [target |-> "user", ondelete |-> "CASCADE", nullable |-> FALSE, primary_key |-> FALSE]

UserRoleAssignmentSchema_project_id ==
    [target |-> "project", ondelete |-> "CASCADE", nullable |-> TRUE, primary_key |-> FALSE]

TeamRoleAssignmentSchema_role_id ==
    [target |-> "role", ondelete |-> "CASCADE", nullable |-> FALSE, primary_key |-> FALSE]

TeamRoleAssignmentSchema_team_id ==
    [target |-> "team", ondelete |-> "CASCADE", nullable |-> FALSE, primary_key |-> FALSE]

TeamRoleAssignmentSchema_project_id ==
    [target |-> "project", ondelete |-> "CASCADE", nullable |-> TRUE, primary_key |-> FALSE]

TeamAssignmentSchema_user_id ==
    [target |-> "user", ondelete |-> "CASCADE", nullable |-> FALSE, primary_key |-> TRUE]

TeamAssignmentSchema_team_id ==
    [target |-> "team", ondelete |-> "CASCADE", nullable |-> FALSE, primary_key |-> TRUE]

RolePermissionSchema_role_id ==
    [target |-> "role", ondelete |-> "CASCADE", nullable |-> FALSE, primary_key |-> TRUE]

\* The pipeline and pipeline run schemas: their foreign keys follow the
\* policy table (Project: CASCADE, User: SET NULL).
PipelineSchema_project_id ==
    [target |-> "project", ondelete |-> "CASCADE", nullable |-> FALSE, primary_key |-> FALSE]

PipelineSchema_user_id ==
    [target |-> "user", ondelete |-> "SET NULL", nullable |-> TRUE, primary_key |-> FALSE]

PipelineRunSchema_project_id ==
    [target |-> "project", ondelete |-> "CASCADE", nullable |-> FALSE, primary_key |-> FALSE]

PipelineRunSchema_user_id ==
    [target |-> "user", ondelete |-> "SET NULL", nullable |-> TRUE, primary_key |-> FALSE]

(***************************************************************************)
(* Parent-side relationships: the cascade each declares (sa_relationship_  *)
(* kwargs), or the link model of a many-to-many relationship.              *)
(***************************************************************************)
ProjectSchema_user_role_assignments == [cascade |-> {"delete"}, link_model |-> ""]
ProjectSchema_team_role_assignments == [cascade |-> {"all", "delete"}, link_model |-> ""]
ProjectSchema_stacks == [cascade |-> {"delete"}, link_model |-> ""]
ProjectSchema_components == [cascade |-> {"delete"}, link_model |-> ""]
ProjectSchema_pipelines == [cascade |-> {"delete"}, link_model |-> ""]
ProjectSchema_runs == [cascade |-> {"delete"}, link_model |-> ""]
UserSchema_assigned_roles == [cascade |-> {"delete"}, link_model |-> ""]
\* A relationship that would delete a user's stacks with the user.
UserSchema_stacks_CascadeDelete == [cascade |-> {"delete"}, link_model |-> ""]
UserSchema_stacks == [cascade |-> {}, link_model |-> ""]
UserSchema_components == [cascade |-> {}, link_model |-> ""]
UserSchema_pipelines == [cascade |-> {}, link_model |-> ""]
UserSchema_runs == [cascade |-> {}, link_model |-> ""]
UserSchema_teams == [cascade |-> {}, link_model |-> "team_assignment"]
TeamSchema_users == [cascade |-> {}, link_model |-> "team_assignment"]
TeamSchema_assigned_roles == [cascade |-> {"delete"}, link_model |-> ""]
RoleSchema_permissions == [cascade |-> {"delete"}, link_model |-> ""]
RoleSchema_user_role_assignments == [cascade |-> {"delete"}, link_model |-> ""]
RoleSchema_team_role_assignments == [cascade |-> {"delete"}, link_model |-> ""]
StackSchema_components == [cascade |-> {}, link_model |-> "stack_composition"]
StackComponentSchema_stacks == [cascade |-> {}, link_model |-> "stack_composition"]

(***************************************************************************)
(* What the object-relational layer and the engine do with the rows of a   *)
(* child table when parent rows are deleted.                               *)
(***************************************************************************)
Restrict(f, D) == [x \in D |-> f[x]]

Referencing(tbl, col, ids) == {r \in DOMAIN tbl : tbl[r][col] \in ids}

Nullified(tbl, col, ids) ==
    [r \in DOMAIN tbl |-> IF tbl[r][col] \in ids THEN [tbl[r] EXCEPT ![col] = NULL] ELSE tbl[r]]

\* The unit of work: a relationship that cascades "delete" deletes the
\* children; any other loaded relationship clears the children's reference.
AfterOrm(tbl, col, ids, rel) ==
    IF "delete" \in rel.cascade
    THEN Restrict(tbl, DOMAIN tbl \ Referencing(tbl, col, ids))
    ELSE Nullified(tbl, col, ids)

\* The engine's foreign key action on the rows that still reference a
\* deleted parent.
AfterEngine(tbl, col, ids, fk) ==
    CASE fk.ondelete = "CASCADE" -> Restrict(tbl, DOMAIN tbl \ Referencing(tbl, col, ids))
      [] fk.ondelete = "SET NULL" -> Nullified(tbl, col, ids)
      [] OTHER -> tbl

ChildrenAfterDelete(tbl, col, ids, rel, fk) ==
    AfterEngine(AfterOrm(tbl, col, ids, rel), col, ids, fk)

\* Rows of a join table after the rows `ids` of the parent of leg `leg` are
\* deleted: a link model's rows go with either parent.
JoinAfterDelete(rows, leg, ids, rel, fk) ==
    IF rel.link_model # "" \/ fk.ondelete = "CASCADE"
    THEN [pair \in DOMAIN rows |-> IF pair[leg] \in ids THEN 0 ELSE rows[pair]]
    ELSE rows

(***************************************************************************)
(* Constraints the engine checks when a transaction commits.               *)
(***************************************************************************)
Ids(d, t) ==
    IF t \in {"project", "user", "team", "role"} THEN d[t] ELSE DOMAIN d[t]

\* A column declared without a foreign key (target "") references nothing.
RefOk(d, fk, v) ==
    IF fk.target = "" THEN TRUE
    ELSE IF v = NULL THEN fk.nullable
    ELSE v \in Ids(d, fk.target)

ForeignKeysOk(d) ==
    /\ \A s \in DOMAIN d.stack :
          /\ RefOk(d, StackSchema_project_id, d.stack[s].project_id)
          /\ RefOk(d, StackSchema_user_id, d.stack[s].user_id)
    /\ \A c \in DOMAIN d.stack_component :
          /\ RefOk(d, StackComponentSchema_project_id, d.stack_component[c].project_id)
          /\ RefOk(d, StackComponentSchema_user_id, d.stack_component[c].user_id)
    /\ \A a \in DOMAIN d.user_role_assignment :
          /\ RefOk(d, UserRoleAssignmentSchema_role_id, d.user_role_assignment[a].role_id)
          /\ RefOk(d, UserRoleAssignmentSchema_user_id, d.user_role_assignment[a].user_id)
          /\ RefOk(d, UserRoleAssignmentSchema_project_id, d.user_role_assignment[a].project_id)
    /\ \A a \in DOMAIN d.team_role_assignment :
          /\ RefOk(d, TeamRoleAssignmentSchema_role_id, d.team_role_assignment[a].role_id)
          /\ RefOk(d, TeamRoleAssignmentSchema_team_id, d.team_role_assignment[a].team_id)
          /\ RefOk(d, TeamRoleAssignmentSchema_project_id, d.team_role_assignment[a].project_id)
    /\ \A q \in DOMAIN d.pipeline :
          /\ RefOk(d, PipelineSchema_project_id, d.pipeline[q].project_id)
          /\ RefOk(d, PipelineSchema_user_id, d.pipeline[q].user_id)
    /\ \A q \in DOMAIN d.pipeline_run :
          /\ RefOk(d, PipelineRunSchema_project_id, d.pipeline_run[q].project_id)
          /\ RefOk(d, PipelineRunSchema_user_id, d.pipeline_run[q].user_id)
    /\ \A pair \in DOMAIN d.stack_composition :
          d.stack_composition[pair] > 0 =>
              /\ RefOk(d, StackCompositionSchema_stack_id, pair[1])
              /\ RefOk(d, StackCompositionSchema_component_id, pair[2])
    /\ \A pair \in DOMAIN d.team_assignment :
          d.team_assignment[pair] > 0 =>
              /\ RefOk(d, TeamAssignmentSchema_user_id, pair[1])
              /\ RefOk(d, TeamAssignmentSchema_team_id, pair[2])
    /\ \A k \in DOMAIN d.role_permission :
          RefOk(d, RolePermissionSchema_role_id, d.role_permission[k].role_id)

\* The composite primary key of stack_composition: the columns declared
\* primary_key=True; no two rows agree on all of them.
RECURSIVE SumOver(_, _)
SumOver(f, S) ==
    IF S = {} THEN 0
    ELSE LET x == CHOOSE y \in S : TRUE IN f[x] + SumOver(f, S \ {x})

CompositeKeyOk(rows, k1, k2, A, B) ==
    CASE k1 /\ k2 -> \A pair \in DOMAIN rows : rows[pair] <= 1
      [] k1 /\ ~k2 -> \A a \in A : SumOver(rows, {pair \in DOMAIN rows : pair[1] = a}) <= 1
      [] ~k1 /\ k2 -> \A b \in B : SumOver(rows, {pair \in DOMAIN rows : pair[2] = b}) <= 1
      [] OTHER -> TRUE

PrimaryKeysOk(d) ==
    /\ CompositeKeyOk(d.stack_composition, StackCompositionSchema_stack_id.primary_key,
                      StackCompositionSchema_component_id.primary_key, StackIds, ComponentIds)
    /\ CompositeKeyOk(d.team_assignment, TeamAssignmentSchema_user_id.primary_key,
                      TeamAssignmentSchema_team_id.primary_key, UserIds, TeamIds)

\* An INSERT commits unless a constraint refuses it; a refused statement
\* leaves the tables as they were.
InsertResult(d, d2) ==
    IF ~PrimaryKeysOk(d2) THEN [db |-> d, err |-> "DuplicateError"]
    ELSE IF ~ForeignKeysOk(d2) THEN [db |-> d, err |-> "ReferenceError"]
    ELSE [db |-> d2, err |-> "none"]

\* A DELETE and the actions it triggers commit together or not at all.
DeleteResult(d, d2) ==
    IF ForeignKeysOk(d2) THEN [db |-> d2, err |-> "none"]
    ELSE [db |-> d, err |-> "IntegrityError"]

(***************************************************************************)
(* Inserts.                                                                *)
(***************************************************************************)
StackInsert(d, s, p, u, sh) ==
    InsertResult(d, [d EXCEPT !.stack =
        [x \in DOMAIN @ \cup {s} |->
            IF x = s THEN [project_id |-> p, user_id |-> u, is_shared |-> sh] ELSE @[x]]])

StackComponentInsert(d, c, p, u, sh) ==
    InsertResult(d, [d EXCEPT !.stack_component =
        [x \in DOMAIN @ \cup {c} |->
            IF x = c THEN [project_id |-> p, user_id |-> u, is_shared |-> sh] ELSE @[x]]])

\* The join table declared without its composite primary key.
StackCompositionInsert_NoPrimaryKey(d, s, c) ==
    LET d2 == [d EXCEPT !.stack_composition[<<s, c>>] = @ + 1]
    IN  IF ForeignKeysOk(d2) THEN [db |-> d2, err |-> "none"]
        ELSE [db |-> d, err |-> "ReferenceError"]

StackCompositionInsert(d, s, c) ==
    InsertResult(d, [d EXCEPT !.stack_composition[<<s, c>>] = @ + 1])

TeamAssignmentInsert(d, u, t) ==
    InsertResult(d, [d EXCEPT !.team_assignment[<<u, t>>] = @ + 1])

\* a role permission row, identified by its primary key (name, role_id)
RolePermissionInsert(d, n, r) ==
    InsertResult(d, [d EXCEPT !.role_permission =
        [x \in DOMAIN @ \cup {<<n, r>>} |->
            IF x = <<n, r>> THEN [name |-> n, role_id |-> r] ELSE @[x]]])

PipelineInsert(d, q, p, u) ==
    InsertResult(d, [d EXCEPT !.pipeline =
        [x \in DOMAIN @ \cup {q} |-> IF x = q THEN [project_id |-> p, user_id |-> u] ELSE @[x]]])

PipelineRunInsert(d, q, p, u) ==
    InsertResult(d, [d EXCEPT !.pipeline_run =
        [x \in DOMAIN @ \cup {q} |-> IF x = q THEN [project_id |-> p, user_id |-> u] ELSE @[x]]])

UserRoleAssignmentInsert(d, a, r, u, p) ==
    InsertResult(d, [d EXCEPT !.user_role_assignment =
        [x \in DOMAIN @ \cup {a} |->
            IF x = a THEN [role_id |-> r, user_id |-> u, project_id |-> p] ELSE @[x]]])

TeamRoleAssignmentInsert(d, a, r, t, p) ==
    InsertResult(d, [d EXCEPT !.team_role_assignment =
        [x \in DOMAIN @ \cup {a} |->
            IF x = a THEN [role_id |-> r, team_id |-> t, project_id |-> p] ELSE @[x]]])

(***************************************************************************)
(* Deletes: the parent rows go, and each child table is treated as the     *)
(* parent's relationship and the child's foreign key declare.              *)
(***************************************************************************)
DeleteStackRows(d, S) ==
    [d EXCEPT !.stack = Restrict(@, DOMAIN @ \ S),
              !.stack_composition = JoinAfterDelete(@, 1, S,
                  StackSchema_components, StackCompositionSchema_stack_id)]

DeleteStackComponentRows(d, C) ==
    [d EXCEPT !.stack_component = Restrict(@, DOMAIN @ \ C),
              !.stack_composition = JoinAfterDelete(@, 2, C,
                  StackComponentSchema_stacks, StackCompositionSchema_component_id)]

DeleteProjectRows(d, P) ==
    LET st == ChildrenAfterDelete(d.stack, "project_id", P,
                  ProjectSchema_stacks, StackSchema_project_id)
        co == ChildrenAfterDelete(d.stack_component, "project_id", P,
                  ProjectSchema_components, StackComponentSchema_project_id)
        d1 == DeleteStackRows(d, DOMAIN d.stack \ DOMAIN st)
        d2 == DeleteStackComponentRows(d1, DOMAIN d.stack_component \ DOMAIN co)
    IN  [d2 EXCEPT !.project = @ \ P,
                   !.stack = st,
                   !.stack_component = co,
                   !.pipeline = ChildrenAfterDelete(@, "project_id", P,
                       ProjectSchema_pipelines, PipelineSchema_project_id),
                   !.pipeline_run = ChildrenAfterDelete(@, "project_id", P,
                       ProjectSchema_runs, PipelineRunSchema_project_id),
                   !.user_role_assignment = ChildrenAfterDelete(@, "project_id", P,
                       ProjectSchema_user_role_assignments, UserRoleAssignmentSchema_project_id),
                   !.team_role_assignment = ChildrenAfterDelete(@, "project_id", P,
                       ProjectSchema_team_role_assignments, TeamRoleAssignmentSchema_project_id)]

DeleteUserRows(d, U) ==
    LET st == ChildrenAfterDelete(d.stack, "user_id", U,
                  UserSchema_stacks, StackSchema_user_id)
        co == ChildrenAfterDelete(d.stack_component, "user_id", U,
                  UserSchema_components, StackComponentSchema_user_id)
        d1 == DeleteStackRows(d, DOMAIN d.stack \ DOMAIN st)
        d2 == DeleteStackComponentRows(d1, DOMAIN d.stack_component \ DOMAIN co)
    IN  [d2 EXCEPT
              !.user = @ \ U,
              !.stack = st,
              !.stack_component = co,
              !.pipeline = ChildrenAfterDelete(@, "user_id", U,
                  UserSchema_pipelines, PipelineSchema_user_id),
              !.pipeline_run = ChildrenAfterDelete(@, "user_id", U,
                  UserSchema_runs, PipelineRunSchema_user_id),
              !.user_role_assignment = ChildrenAfterDelete(@, "user_id", U,
                  UserSchema_assigned_roles, UserRoleAssignmentSchema_user_id),
              !.team_assignment = JoinAfterDelete(@, 1, U,
                  UserSchema_teams, TeamAssignmentSchema_user_id)]

DeleteTeamRows(d, T) ==
    [d EXCEPT !.team = @ \ T,
              !.team_role_assignment = ChildrenAfterDelete(@, "team_id", T,
                  TeamSchema_assigned_roles, TeamRoleAssignmentSchema_team_id),
              !.team_assignment = JoinAfterDelete(@, 2, T,
                  TeamSchema_users, TeamAssignmentSchema_team_id)]

DeleteRoleRows(d, R) ==
    [d EXCEPT !.role = @ \ R,
              !.user_role_assignment = ChildrenAfterDelete(@, "role_id", R,
                  RoleSchema_user_role_assignments, UserRoleAssignmentSchema_role_id),
              !.team_role_assignment = ChildrenAfterDelete(@, "role_id", R,
                  RoleSchema_team_role_assignments, TeamRoleAssignmentSchema_role_id),
              !.role_permission = ChildrenAfterDelete(@, "role_id", R,
                  RoleSchema_permissions, RolePermissionSchema_role_id)]

\* A project delete that leaves the project's stacks behind.
ProjectDelete_StacksOrphaned(d, p) ==
    [db |-> [DeleteProjectRows(d, {p}) EXCEPT !.stack = d.stack], err |-> "none"]

\* A project delete that also takes the rows whose scope is null.
ProjectDelete_GlobalScopeToo(d, p) == DeleteResult(d, DeleteProjectRows(d, {p, NULL}))

\* A team delete that leaves the team's membership rows behind.
TeamDelete_MembersLeft(d, t) ==
    [db |-> [DeleteTeamRows(d, {t}) EXCEPT !.team_assignment = d.team_assignment],
     err |-> "none"]

\* A role delete that leaves the role's permission rows behind.
RoleDelete_PermissionsLeft(d, r) ==
    [db |-> [DeleteRoleRows(d, {r}) EXCEPT !.role_permission = d.role_permission],
     err |-> "none"]

\* A component delete that leaves the component's association rows behind.
StackComponentDelete_JoinRowsLeft(d, c) ==
    [db |-> [d EXCEPT !.stack_component = Restrict(@, DOMAIN @ \ {c})], err |-> "none"]

\* A user delete that leaves the rows that reference the user as they are.
UserDelete_ReferencesLeft(d, u) == [db |-> [d EXCEPT !.user = @ \ {u}], err |-> "none"]

ProjectDelete(d, p) == DeleteResult(d, DeleteProjectRows(d, {p}))
UserDelete(d, u) == DeleteResult(d, DeleteUserRows(d, {u}))
TeamDelete(d, t) == DeleteResult(d, DeleteTeamRows(d, {t}))
RoleDelete(d, r) == DeleteResult(d, DeleteRoleRows(d, {r}))
StackDelete(d, s) == DeleteResult(d, DeleteStackRows(d, {s}))
StackComponentDelete(d, c) == DeleteResult(d, DeleteStackComponentRows(d, {c}))

\* The child tables that hold a row referencing parent `id` through `col`.
Dependents(d, col, id) ==
    {t \in {"stack", "stack_component", "pipeline", "pipeline_run",
             "user_role_assignment", "team_role_assignment", "role_permission"} :
        \E r \in DOMAIN d[t] : col \in DOMAIN d[t][r] /\ d[t][r][col] = id}

JoinDependents(d, leg, id) ==
    IF \E pair \in DOMAIN d.stack_composition :
          pair[leg] = id /\ d.stack_composition[pair] > 0
    THEN {"stack_composition"} ELSE {}

TeamAssignmentDependents(d, leg, id) ==
    IF \E pair \in DOMAIN d.team_assignment :
          pair[leg] = id /\ d.team_assignment[pair] > 0
    THEN {"team_assignment"} ELSE {}

RowCount(d) ==
    Cardinality(DOMAIN d.stack) + Cardinality(DOMAIN d.stack_component)
    + Cardinality(DOMAIN d.pipeline) + Cardinality(DOMAIN d.pipeline_run)
    + Cardinality(DOMAIN d.user_role_assignment)
    + Cardinality(DOMAIN d.team_role_assignment)
    + Cardinality(DOMAIN d.role_permission)

(***************************************************************************)
(* The store's operations.                                                 *)
(***************************************************************************)
Done(op, r, hit) ==
    /\ db' = r.db
    /\ last' = [op |-> op, err |-> r.err, hit |-> hit]
    /\ UNCHANGED mapVars
    /\ UNCHANGED txVars
    /\ UNCHANGED harnessVars

CreateProject(p) ==
    /\ p \notin db.project
    /\ Done("create_project", [db |-> [db EXCEPT !.project = @ \cup {p}], err |-> "none"], {})

CreateUser(u) ==
    /\ u \notin db.user
    /\ Done("create_user", [db |-> [db EXCEPT !.user = @ \cup {u}], err |-> "none"], {})

CreateTeam(t) ==
    /\ t \notin db.team
    /\ Done("create_team", [db |-> [db EXCEPT !.team = @ \cup {t}], err |-> "none"], {})

CreateRole(r) ==
    /\ r \notin db.role
    /\ Done("create_role", [db |-> [db EXCEPT !.role = @ \cup {r}], err |-> "none"], {})

CreateStack(s, p, u, sh) ==
    /\ s \notin DOMAIN db.stack
    /\ RowCount(db) < MaxRows
    /\ Done("create_stack", StackInsert(db, s, p, u, sh), {})

CreateStackComponent(c, p, u, sh) ==
    /\ c \notin DOMAIN db.stack_component
    /\ RowCount(db) < MaxRows
    /\ Done("create_stack_component", StackComponentInsert(db, c, p, u, sh), {})

InsertStackComposition(s, c) ==
    Done("insert_stack_composition", StackCompositionInsert(db, s, c), {})

CreatePipeline(q, p, u) ==
    /\ q \notin DOMAIN db.pipeline
    /\ RowCount(db) < MaxRows
    /\ Done("create_pipeline", PipelineInsert(db, q, p, u), {})

CreatePipelineRun(q, p, u) ==
    /\ q \notin DOMAIN db.pipeline_run
    /\ RowCount(db) < MaxRows
    /\ Done("create_pipeline_run", PipelineRunInsert(db, q, p, u), {})

AssignUserRole(a, r, u, p) ==
    /\ a \notin DOMAIN db.user_role_assignment
    /\ RowCount(db) < MaxRows
    /\ Done("assign_user_role", UserRoleAssignmentInsert(db, a, r, u, p), {})

AssignTeamRole(a, r, t, p) ==
    /\ a \notin DOMAIN db.team_role_assignment
    /\ RowCount(db) < MaxRows
    /\ Done("assign_team_role", TeamRoleAssignmentInsert(db, a, r, t, p), {})

AssignTeam(u, t) ==
    Done("assign_team", TeamAssignmentInsert(db, u, t), {})

CreateRolePermission(n, r) ==
    /\ <<n, r>> \notin DOMAIN db.role_permission
    /\ RowCount(db) < MaxRows
    /\ Done("create_role_permission", RolePermissionInsert(db, n, r), {})

DeleteProject(p) ==
    /\ p \in db.project
    /\ Done("delete_project", ProjectDelete(db, p), Dependents(db, "project_id", p))

DeleteUser(u) ==
    /\ u \in db.user
    /\ Done("delete_user", UserDelete(db, u),
            Dependents(db, "user_id", u) \cup TeamAssignmentDependents(db, 1, u))

DeleteTeam(t) ==
    /\ t \in db.team
    /\ Done("delete_team", TeamDelete(db, t),
            Dependents(db, "team_id", t) \cup TeamAssignmentDependents(db, 2, t))

DeleteRole(r) ==
    /\ r \in db.role
    /\ Done("delete_role", RoleDelete(db, r), Dependents(db, "role_id", r))

DeleteStack(s) ==
    /\ s \in DOMAIN db.stack
    /\ Done("delete_stack", StackDelete(db, s), JoinDependents(db, 1, s))

DeleteStackComponent(c) ==
    /\ c \in DOMAIN db.stack_component
    /\ Done("delete_stack_component", StackComponentDelete(db, c), JoinDependents(db, 2, c))

EmptyDb ==
    [project |-> {}, user |-> {}, team |-> {}, role |-> {},
     stack |-> <<>>, stack_component |-> <<>>,
     stack_composition |-> [pair \in StackIds \X ComponentIds |-> 0],
     team_assignment |-> [pair \in UserIds \X TeamIds |-> 0],
     role_permission |-> <<>>,
     pipeline |-> <<>>, pipeline_run |-> <<>>,
     user_role_assignment |-> <<>>, team_role_assignment |-> <<>>]

Init ==
    /\ db = EmptyDb
    /\ last = [op |-> "init", err |-> "none", hit |-> {}]
    /\ schema = NoSchema
    /\ returned = NoModel
    /\ call = [op |-> "none", err |-> "none", arg |-> NoModel, after |-> "none"]
    /\ now = 0
    /\ debug = TRUE
    /\ field_order = <<>>
    /\ tx = NoTx
    /\ pending = NoPending
    /\ HarnessIdle

Next ==
    \/ \E p \in ProjectIds : CreateProject(p)
    \/ \E u \in UserIds : CreateUser(u)
    \/ \E t \in TeamIds : CreateTeam(t)
    \/ \E r \in RoleIds : CreateRole(r)
    \/ \E s \in StackIds, p \in ProjectIds \cup {NULL}, u \in UserIds \cup {NULL},
            sh \in BOOLEAN : CreateStack(s, p, u, sh)
    \/ \E c \in ComponentIds, p \in ProjectIds \cup {NULL}, u \in UserIds \cup {NULL},
            sh \in BOOLEAN : CreateStackComponent(c, p, u, sh)
    \/ \E s \in StackIds, c \in ComponentIds : InsertStackComposition(s, c)
    \/ \E q \in PipelineIds, p \in ProjectIds, u \in UserIds \cup {NULL} : CreatePipeline(q, p, u)
    \/ \E q \in RunIds, p \in ProjectIds, u \in UserIds \cup {NULL} : CreatePipelineRun(q, p, u)
    \/ \E a \in AssignmentIds, r \in RoleIds, u \in UserIds, p \in ProjectIds \cup {NULL} :
          AssignUserRole(a, r, u, p)
    \/ \E a \in AssignmentIds, r \in RoleIds, t \in TeamIds, p \in ProjectIds \cup {NULL} :
          AssignTeamRole(a, r, t, p)
    \/ \E p \in ProjectIds : DeleteProject(p)
    \/ \E u \in UserIds : DeleteUser(u)
    \/ \E t \in TeamIds : DeleteTeam(t)
    \/ \E r \in RoleIds : DeleteRole(r)
    \/ \E s \in StackIds : DeleteStack(s)
    \/ \E c \in ComponentIds : DeleteStackComponent(c)

Spec == Init /\ [][Next]_vars

\* The users, teams and roles of the store, with team membership, role
\* permissions and role assignments.
NextAccess ==
    \/ \E p \in ProjectIds : CreateProject(p)
    \/ \E u \in UserIds : CreateUser(u)
    \/ \E t \in TeamIds : CreateTeam(t)
    \/ \E r \in RoleIds : CreateRole(r)
    \/ \E u \in UserIds, t \in TeamIds : AssignTeam(u, t)
    \/ \E n \in PermissionTypes, r \in RoleIds : CreateRolePermission(n, r)
    \/ \E a \in AssignmentIds, r \in RoleIds, u \in UserIds, p \in ProjectIds \cup {NULL} :
          AssignUserRole(a, r, u, p)
    \/ \E a \in AssignmentIds, r \in RoleIds, t \in TeamIds, p \in ProjectIds \cup {NULL} :
          AssignTeamRole(a, r, t, p)
    \/ \E p \in ProjectIds : DeleteProject(p)
    \/ \E u \in UserIds : DeleteUser(u)
    \/ \E t \in TeamIds : DeleteTeam(t)
    \/ \E r \in RoleIds : DeleteRole(r)

SpecAccess == Init /\ [][NextAccess]_vars

(***************************************************************************)
(* Properties of the relational store (checked under Spec).                *)
(***************************************************************************)
ProjectChildTables ==
    {"stack", "stack_component", "pipeline", "pipeline_run",
     "user_role_assignment", "team_role_assignment"}

Deleted(t, id) == id \in Ids(db, t) /\ id \notin Ids(db', t)

\* C1: cascade completeness. A step that deletes project p removes every
\* Stack, StackComponent, Pipeline, PipelineRun, UserRoleAssignment and
\* TeamRoleAssignment row that referenced p, and no row of these tables
\* references p afterwards.
C1_CascadeCompleteness ==
    [][\A p \in ProjectIds : Deleted("project", p) =>
          \A t \in ProjectChildTables :
              /\ \A r \in DOMAIN db[t] : db[t][r].project_id = p => r \notin DOMAIN db'[t]
              /\ \A r \in DOMAIN db'[t] : db'[t][r].project_id # p]_dbVars

C1_Witness ==
    /\ last.op = "delete_project" /\ last.err = "none"
    /\ {"stack", "user_role_assignment"} \subseteq last.hit
    /\ RowCount(db) > 0

\* C2: set-null correctness. A step that deletes user u keeps every Stack
\* and StackComponent row that referenced u, with user_id null and every
\* other field as before, keeps the stack/component associations, and
\* leaves no UserRoleAssignment row of u.
C2_SetNullOnUserDelete ==
    [][\A u \in UserIds : Deleted("user", u) =>
          /\ \A t \in {"stack", "stack_component"} : \A r \in DOMAIN db[t] :
                 db[t][r].user_id = u =>
                     /\ r \in DOMAIN db'[t]
                     /\ db'[t][r] = [db[t][r] EXCEPT !.user_id = NULL]
          /\ db'.stack_composition = db.stack_composition
          /\ \A a \in DOMAIN db.user_role_assignment :
                 db.user_role_assignment[a].user_id = u =>
                     a \notin DOMAIN db'.user_role_assignment
          /\ \A a \in DOMAIN db'.user_role_assignment :
                 db'.user_role_assignment[a].user_id # u]_dbVars

C2_Witness ==
    /\ last.op = "delete_user" /\ last.err = "none"
    /\ {"stack", "stack_component", "user_role_assignment"} \subseteq last.hit
    /\ \E pair \in DOMAIN db.stack_composition : db.stack_composition[pair] > 0
    /\ \E s \in DOMAIN db.stack : db.stack[s].user_id = NULL /\ db.stack[s].is_shared

\* C3: a step that deletes project p deletes no User, Team or Role row,
\* deletes exactly the role assignments whose project_id is p, and leaves
\* every other role assignment (null scope or another project) as it was.
C3_ProjectDeleteFrame ==
    [][\A p \in ProjectIds : Deleted("project", p) =>
          /\ db'.user = db.user /\ db'.team = db.team /\ db'.role = db.role
          /\ \A t \in {"user_role_assignment", "team_role_assignment"} :
                 /\ DOMAIN db'[t] \subseteq DOMAIN db[t]
                 /\ \A a \in DOMAIN db[t] :
                        IF db[t][a].project_id = p
                        THEN a \notin DOMAIN db'[t]
                        ELSE a \in DOMAIN db'[t] /\ db'[t][a] = db[t][a]]_dbVars

C3_Witness ==
    /\ last.op = "delete_project" /\ last.err = "none"
    /\ "user_role_assignment" \in last.hit
    /\ \E a \in DOMAIN db.team_role_assignment :
           db.team_role_assignment[a].project_id = NULL
    /\ db.user # {} /\ db.role # {} /\ db.team # {}

\* C6: inserting a StackComposition row whose stack_id or component_id
\* refers to no existing row fails with ReferenceError and changes no row.
C6_DanglingInsertRefused ==
    [][\A s \in StackIds, c \in ComponentIds :
          (/\ InsertStackComposition(s, c)
           /\ (s \notin DOMAIN db.stack \/ c \notin DOMAIN db.stack_component))
          => (last'.err = "ReferenceError" /\ db' = db)]_dbVars

C6_Witness ==
    /\ last.op = "insert_stack_composition" /\ last.err = "ReferenceError"
    /\ DOMAIN db.stack = {} /\ DOMAIN db.stack_component # {}

\* C7: stack membership is a set. Inserting a (stack_id, component_id) pair
\* that is present fails with DuplicateError and changes no row, and no
\* pair ever occurs more than once in stack_composition.
C7_MembershipIsSet ==
    [][/\ \A pair \in DOMAIN db'.stack_composition : db'.stack_composition[pair] <= 1
       /\ \A s \in StackIds, c \in ComponentIds :
              (InsertStackComposition(s, c) /\ db.stack_composition[<<s, c>>] > 0)
              => (last'.err = "DuplicateError" /\ db' = db)]_dbVars

C7_Witness ==
    /\ last.op = "insert_stack_composition" /\ last.err = "DuplicateError"
    /\ \E pair \in DOMAIN db.stack_composition : db.stack_composition[pair] = 1

(***************************************************************************)
(* Text, bytes and the configuration codec.  A text is a sequence of code  *)
(* points, a byte string a sequence of 0..255; a JSON-compatible value is  *)
(* a record with the fields t (its type), b, n, s, items and keys.         *)
(* A result that is used more than once is bound over a singleton set      *)
(* (CHOOSE r \in {f(x) : x \in {e}} : TRUE is f(e), with e computed once).  *)
(***************************************************************************)
Lower ==
    <<"a", "b", "c", "d", "e", "f", "g", "h", "i", "j", "k", "l", "m",
      "n", "o", "p", "q", "r", "s", "t", "u", "v", "w", "x", "y", "z">>

\* ord(c) of the characters the model writes down
Ord(c) ==
    CASE c = "\n" -> 10
      [] c = " " -> 32
      [] c = "!" -> 33
      [] c = "\"" -> 34
      [] c = "," -> 44
      [] c = "-" -> 45
      [] c = "." -> 46
      [] c = "/" -> 47
      [] c = ":" -> 58
      [] c = "=" -> 61
      [] c = "[" -> 91
      [] c = "\\" -> 92
      [] c = "]" -> 93
      [] c = "{" -> 123
      [] c = "}" -> 125
      [] c = "e-acute" -> 233
      [] c = "euro" -> 8364
      [] OTHER -> 96 + CHOOSE i \in 1..26 : Lower[i] = c

Text(cs) == [i \in 1..Len(cs) |-> Ord(cs[i])]

JValue(t, b, n, s, items, keys) ==
    [t |-> t, b |-> b, n |-> n, s |-> s, items |-> items, keys |-> keys]
JNull == JValue("null", FALSE, 0, <<>>, <<>>, <<>>)
JBool(b) == JValue("bool", b, 0, <<>>, <<>>, <<>>)
JInt(n) == JValue("int", FALSE, n, <<>>, <<>>, <<>>)
\* a float in decimal notation: sign, integral part, digits of the fraction
JFloat(neg, n, frac) == JValue("float", neg, n, frac, <<>>, <<>>)
JStr(s) == JValue("str", FALSE, 0, s, <<>>, <<>>)
JList(items) == JValue("list", FALSE, 0, <<>>, items, <<>>)
\* a dict in insertion order: keys[i] maps to items[i]
JDict(keys, items) == JValue("dict", FALSE, 0, <<>>, items, keys)

RECURSIVE Join(_, _)
Join(parts, sep) ==
    IF Len(parts) = 0 THEN <<>>
    ELSE IF Len(parts) = 1 THEN parts[1]
    ELSE parts[1] \o sep \o Join(Tail(parts), sep)

RECURSIVE Digits(_)
Digits(n) == IF n < 10 THEN <<48 + n>> ELSE Digits(n \div 10) \o <<48 + (n % 10)>>

HexDigit(h) == IF h < 10 THEN 48 + h ELSE 87 + h

EscapeAscii_Unescaped(c) == <<c>>

\* json.encoder.py_encode_basestring_ascii: one character of a string
EscapeAscii(c) ==
    CASE c = 34 -> <<92, 34>>
      [] c = 92 -> <<92, 92>>
      [] c = 10 -> <<92, 110>>
      [] c = 13 -> <<92, 114>>
      [] c = 9 -> <<92, 116>>
      [] c = 12 -> <<92, 102>>
      [] c = 8 -> <<92, 98>>
      [] OTHER ->
           IF c >= 32 /\ c <= 126 THEN <<c>>
           ELSE <<92, 117, HexDigit(c \div 4096), HexDigit((c \div 256) % 16),
                  HexDigit((c \div 16) % 16), HexDigit(c % 16)>>

RECURSIVE EncodeString(_)
EncodeString(s) ==
    IF Len(s) = 0 THEN <<>>
    ELSE IF Len(s) = 1 THEN EscapeAscii(s[1])
    ELSE LET half == Len(s) \div 2 IN
         EncodeString(SubSeq(s, 1, half)) \o EncodeString(SubSeq(s, half + 1, Len(s)))

\* json.dumps(obj) with the default separators (", " and ": ") and
\* ensure_ascii=True
RECURSIVE json_dumps(_)
json_dumps(v) ==
    CASE v.t = "null" -> Text(<<"n", "u", "l", "l">>)
      [] v.t = "bool" -> IF v.b THEN Text(<<"t", "r", "u", "e">>)
                         ELSE Text(<<"f", "a", "l", "s", "e">>)
      [] v.t = "int" -> IF v.n < 0 THEN <<45>> \o Digits(0 - v.n) ELSE Digits(v.n)
      [] v.t = "float" -> (IF v.b THEN <<45>> ELSE <<>>) \o Digits(v.n) \o <<46>>
                          \o [i \in 1..Len(v.s) |-> 48 + v.s[i]]
      [] v.t = "str" -> <<34>> \o EncodeString(v.s) \o <<34>>
      [] v.t = "list" ->
           <<91>> \o Join([i \in 1..Len(v.items) |-> json_dumps(v.items[i])], <<44, 32>>)
           \o <<93>>
      [] v.t = "dict" ->
           <<123>>
           \o Join([i \in 1..Len(v.keys) |->
                      <<34>> \o EncodeString(v.keys[i]) \o <<34, 58, 32>>
                      \o json_dumps(v.items[i])], <<44, 32>>)
           \o <<125>>

\* str.encode("utf-8")
RECURSIVE utf8_encode(_)
utf8_encode(s) ==
    IF Len(s) = 0 THEN <<>>
    ELSE IF Len(s) = 1 THEN
        LET c == s[1] IN
        IF c < 128 THEN <<c>>
        ELSE IF c < 2048 THEN <<192 + (c \div 64), 128 + (c % 64)>>
        ELSE <<224 + (c \div 4096), 128 + ((c \div 64) % 64), 128 + (c % 64)>>
    ELSE LET half == Len(s) \div 2 IN
         utf8_encode(SubSeq(s, 1, half)) \o utf8_encode(SubSeq(s, half + 1, Len(s)))

B64Char(i) ==
    IF i < 26 THEN 65 + i
    ELSE IF i < 52 THEN 71 + i
    ELSE IF i < 62 THEN i - 4
    ELSE IF i = 62 THEN 43 ELSE 47

\* binascii's decoding table: the 6-bit value of a character, -1 if it has none
B64Index(c) ==
    IF c >= 65 /\ c <= 90 THEN c - 65
    ELSE IF c >= 97 /\ c <= 122 THEN c - 71
    ELSE IF c >= 48 /\ c <= 57 THEN c + 4
    ELSE IF c = 43 THEN 62
    ELSE IF c = 47 THEN 63 ELSE 0 - 1

\* base64.b64encode(s): every three bytes give four characters, the last
\* one or two bytes a padded quad
RECURSIVE b64encode(_)
b64encode(bs) ==
    IF Len(bs) = 0 THEN <<>>
    ELSE IF Len(bs) = 1 THEN
        <<B64Char(bs[1] \div 4), B64Char((bs[1] % 4) * 16), 61, 61>>
    ELSE IF Len(bs) = 2 THEN
        <<B64Char(bs[1] \div 4), B64Char((bs[1] % 4) * 16 + (bs[2] \div 16)),
          B64Char((bs[2] % 16) * 4), 61>>
    ELSE IF Len(bs) = 3 THEN
        <<B64Char(bs[1] \div 4), B64Char((bs[1] % 4) * 16 + (bs[2] \div 16)),
          B64Char((bs[2] % 16) * 4 + (bs[3] \div 64)), B64Char(bs[3] % 64)>>
    ELSE LET cut == 3 * (((Len(bs) \div 3) + 1) \div 2) IN
         b64encode(SubSeq(bs, 1, cut)) \o b64encode(SubSeq(bs, cut + 1, Len(bs)))

\* binascii.a2b_base64 as base64.b64decode(s) calls it (validate=False), one
\* character at a time: a character outside the alphabet is discarded, and
\* the padding that completes a quad ends the input
a2b_base64_char(st, ch) ==
    IF st.done THEN st
    ELSE IF ch = 61 THEN
        IF st.quad_pos >= 2 /\ st.quad_pos + st.pads + 1 >= 4 THEN [st EXCEPT !.done = TRUE]
        ELSE IF st.quad_pos >= 2 THEN [st EXCEPT !.pads = @ + 1]
        ELSE st
    ELSE IF B64Index(ch) < 0 THEN st
    ELSE LET this_ch == B64Index(ch) IN
        CASE st.quad_pos = 0 ->
               [st EXCEPT !.quad_pos = 1, !.leftchar = this_ch, !.pads = 0]
          [] st.quad_pos = 1 ->
               [st EXCEPT !.quad_pos = 2, !.leftchar = this_ch % 16, !.pads = 0,
                          !.bytes = Append(@, st.leftchar * 4 + (this_ch \div 16))]
          [] st.quad_pos = 2 ->
               [st EXCEPT !.quad_pos = 3, !.leftchar = this_ch % 4, !.pads = 0,
                          !.bytes = Append(@, st.leftchar * 16 + (this_ch \div 4))]
          [] st.quad_pos = 3 ->
               [st EXCEPT !.quad_pos = 0, !.leftchar = 0, !.pads = 0,
                          !.bytes = Append(@, st.leftchar * 64 + this_ch)]

\* the loop of a2b_base64 over data[lo..hi]
RECURSIVE a2b_base64(_, _, _, _)
a2b_base64(st, data, lo, hi) ==
    IF lo > hi \/ st.done THEN st
    ELSE IF lo = hi THEN a2b_base64_char(st, data[lo])
    ELSE LET mid == (lo + hi) \div 2 IN
         CHOOSE result \in {a2b_base64(left, data, mid + 1, hi) :
                               left \in {a2b_base64(st, data, lo, mid)}} : TRUE

b64decode(s) ==
    CHOOSE result \in
        {IF ~st.done /\ st.quad_pos # 0 THEN [err |-> "binascii.Error", bytes |-> <<>>]
         ELSE [err |-> "none", bytes |-> st.bytes] :
            st \in {a2b_base64([quad_pos |-> 0, leftchar |-> 0, pads |-> 0,
                                bytes |-> <<>>, done |-> FALSE], s, 1, Len(s))}} : TRUE

\* the utf-8 decoder, one byte at a time: need counts the continuation bytes
\* still expected, lo..hi is the range allowed for the next one
utf8_decode_byte(st, b) ==
    IF st.err THEN st
    ELSE IF st.need = 0 THEN
        IF b < 128 THEN [st EXCEPT !.text = Append(@, b)]
        ELSE IF b >= 194 /\ b <= 223 THEN
            [st EXCEPT !.need = 1, !.cp = b - 192, !.lo = 128, !.hi = 191]
        ELSE IF b >= 224 /\ b <= 239 THEN
            [st EXCEPT !.need = 2, !.cp = b - 224,
                       !.lo = IF b = 224 THEN 160 ELSE 128,
                       !.hi = IF b = 237 THEN 159 ELSE 191]
        ELSE IF b >= 240 /\ b <= 244 THEN
            [st EXCEPT !.need = 3, !.cp = b - 240,
                       !.lo = IF b = 240 THEN 144 ELSE 128,
                       !.hi = IF b = 244 THEN 143 ELSE 191]
        ELSE [st EXCEPT !.err = TRUE]
    ELSE IF b < st.lo \/ b > st.hi THEN [st EXCEPT !.err = TRUE]
    ELSE IF st.need = 1 THEN
        [st EXCEPT !.need = 0, !.text = Append(@, st.cp * 64 + (b - 128))]
    ELSE [st EXCEPT !.need = @ - 1, !.cp = @ * 64 + (b - 128), !.lo = 128, !.hi = 191]

RECURSIVE utf8_decode_range(_, _, _, _)
utf8_decode_range(st, bs, lo, hi) ==
    IF lo > hi \/ st.err THEN st
    ELSE IF lo = hi THEN utf8_decode_byte(st, bs[lo])
    ELSE LET mid == (lo + hi) \div 2 IN
         CHOOSE result \in {utf8_decode_range(left, bs, mid + 1, hi) :
                               left \in {utf8_decode_range(st, bs, lo, mid)}} : TRUE

\* bytes.decode() (utf-8, strict)
utf8_decode(bs) ==
    CHOOSE result \in
        {IF st.err \/ st.need # 0 THEN [err |-> "UnicodeDecodeError", text |-> <<>>]
         ELSE [err |-> "none", text |-> st.text] :
            st \in {utf8_decode_range([need |-> 0, cp |-> 0, lo |-> 128, hi |-> 191,
                                       text |-> <<>>, err |-> FALSE], bs, 1, Len(bs))}} : TRUE

Whitespace == {32, 9, 10, 13}

RECURSIVE SkipWhitespace(_, _)
SkipWhitespace(s, i) ==
    IF i <= Len(s) /\ s[i] \in Whitespace THEN SkipWhitespace(s, i + 1) ELSE i

At(s, i) == IF i >= 1 /\ i <= Len(s) THEN s[i] ELSE 0 - 1

IsDigit(c) == c >= 48 /\ c <= 57

HexValue(c) ==
    IF IsDigit(c) THEN c - 48
    ELSE IF c >= 97 /\ c <= 102 THEN c - 87
    ELSE IF c >= 65 /\ c <= 70 THEN c - 55 ELSE 0 - 1

JSONDecodeError == [err |-> "JSONDecodeError", v |-> JNull, end |-> 0]
Scanned(v, end) == [err |-> "none", v |-> v, end |-> end]

\* json.decoder.py_scanstring (strict), one character at a time: mode is
\* "char", "escape" (after a backslash) or "u4".."u1" (hex digits of \uXXXX
\* still expected; the model's characters are in the basic plane)
scanstring_char(st, c, pos) ==
    IF st.mode = "char" THEN
        IF c = 34 THEN [st EXCEPT !.done = TRUE, !.end = pos + 1]
        ELSE IF c < 32 THEN [st EXCEPT !.err = TRUE]
        ELSE IF c = 92 THEN [st EXCEPT !.mode = "escape"]
        ELSE [st EXCEPT !.chunks = Append(@, c)]
    ELSE IF st.mode = "escape" THEN
        CASE c \in {34, 92, 47} -> [st EXCEPT !.mode = "char", !.chunks = Append(@, c)]
          [] c = 98 -> [st EXCEPT !.mode = "char", !.chunks = Append(@, 8)]
          [] c = 102 -> [st EXCEPT !.mode = "char", !.chunks = Append(@, 12)]
          [] c = 110 -> [st EXCEPT !.mode = "char", !.chunks = Append(@, 10)]
          [] c = 114 -> [st EXCEPT !.mode = "char", !.chunks = Append(@, 13)]
          [] c = 116 -> [st EXCEPT !.mode = "char", !.chunks = Append(@, 9)]
          [] c = 117 -> [st EXCEPT !.mode = "u4", !.cp = 0]
          [] OTHER -> [st EXCEPT !.err = TRUE]
    ELSE IF HexValue(c) < 0 THEN [st EXCEPT !.err = TRUE]
    ELSE IF st.mode = "u1" THEN
        [st EXCEPT !.mode = "char", !.chunks = Append(@, st.cp * 16 + HexValue(c))]
    ELSE [st EXCEPT !.cp = @ * 16 + HexValue(c),
                    !.mode = CASE st.mode = "u4" -> "u3" [] st.mode = "u3" -> "u2"
                               [] OTHER -> "u1"]

RECURSIVE scanstring_range(_, _, _, _)
scanstring_range(st, s, lo, hi) ==
    IF lo > hi \/ st.done \/ st.err THEN st
    ELSE IF lo = hi THEN scanstring_char(st, s[lo], lo)
    ELSE LET mid == (lo + hi) \div 2 IN
         CHOOSE result \in {scanstring_range(left, s, mid + 1, hi) :
                               left \in {scanstring_range(st, s, lo, mid)}} : TRUE

\* s[end] is the character after the opening quote
scanstring(s, end) ==
    CHOOSE result \in
        {IF st.done THEN Scanned(JStr(st.chunks), st.end) ELSE JSONDecodeError :
            st \in {scanstring_range([mode |-> "char", cp |-> 0, chunks |-> <<>>,
                                      end |-> 0, err |-> FALSE, done |-> FALSE],
                                     s, end, Len(s))}} : TRUE

RECURSIVE ScanDigits(_, _)
ScanDigits(s, i) == IF IsDigit(At(s, i)) THEN ScanDigits(s, i + 1) ELSE i

RECURSIVE Number(_, _, _)
Number(s, from, to) ==
    IF from > to THEN 0 ELSE Number(s, from, to - 1) * 10 + (s[to] - 48)

RECURSIVE StripZeros(_)
StripZeros(ds) ==
    IF Len(ds) > 1 /\ ds[Len(ds)] = 0 THEN StripZeros(SubSeq(ds, 1, Len(ds) - 1)) ELSE ds

\* json.scanner NUMBER_RE: (-?(?:0|[1-9]\d*))(\.\d+)?
ScanNumber(s, idx) ==
    LET neg == At(s, idx) = 45
        first == IF neg THEN idx + 1 ELSE idx
        stop == IF At(s, first) = 48 THEN first + 1 ELSE ScanDigits(s, first)
        fracEnd == IF At(s, stop) = 46 THEN ScanDigits(s, stop + 1) ELSE stop
    IN  IF stop = first THEN JSONDecodeError
        ELSE IF fracEnd > stop + 1 THEN
            Scanned(JFloat(neg, Number(s, first, stop - 1),
                           StripZeros([k \in 1..(fracEnd - stop - 1) |-> s[stop + k] - 48])),
                    fracEnd)
        ELSE Scanned(JInt(IF neg THEN 0 - Number(s, first, stop - 1)
                          ELSE Number(s, first, stop - 1)), stop)

StartsWith(s, idx, word) ==
    /\ idx + Len(word) - 1 <= Len(s)
    /\ \A k \in 1..Len(word) : s[idx + k - 1] = word[k]

\* dict(pairs): a repeated key keeps its first position and its last value
DictPut(d, key, value) ==
    IF \E k \in 1..Len(d.keys) : d.keys[k] = key THEN
        JDict(d.keys, [k \in 1..Len(d.keys) |->
                          IF d.keys[k] = key THEN value ELSE d.items[k]])
    ELSE JDict(Append(d.keys, key), Append(d.items, value))

RECURSIVE scan_once(_, _), JSONArrayItems(_, _, _), JSONObjectPairs(_, _, _),
          JSONObjectValue(_, _, _)

\* json.decoder.JSONArray after the opening bracket: s[end] starts a value
JSONArrayItems(s, end, values) ==
    CHOOSE result \in
        {IF item.err # "none" THEN JSONDecodeError
         ELSE LET after == SkipWhitespace(s, item.end) IN
              IF At(s, after) = 93 THEN Scanned(JList(Append(values, item.v)), after + 1)
              ELSE IF At(s, after) = 44 THEN
                  JSONArrayItems(s, SkipWhitespace(s, after + 1), Append(values, item.v))
              ELSE JSONDecodeError :
            item \in {scan_once(s, end)}} : TRUE

\* the rest of a pair whose key is scanned: the colon, the value, and what
\* follows it
JSONObjectValue(s, key, pairs) ==
    LET colon == IF At(s, key.end) = 58 THEN key.end ELSE SkipWhitespace(s, key.end) IN
    IF At(s, colon) # 58 THEN JSONDecodeError
    ELSE CHOOSE result \in
        {IF value.err # "none" THEN JSONDecodeError
         ELSE LET after == SkipWhitespace(s, value.end)
                  next == SkipWhitespace(s, after + 1)
              IN  IF At(s, after) = 125 THEN
                      Scanned(DictPut(pairs, key.v.s, value.v), after + 1)
                  ELSE IF At(s, after) # 44 THEN JSONDecodeError
                  ELSE IF At(s, next) # 34 THEN JSONDecodeError
                  ELSE JSONObjectPairs(s, next + 1, DictPut(pairs, key.v.s, value.v)) :
            value \in {scan_once(s, SkipWhitespace(s, colon + 1))}} : TRUE

\* json.decoder.JSONObject: s[end] is the character after a key's opening quote
JSONObjectPairs(s, end, pairs) ==
    CHOOSE result \in
        {IF key.err # "none" THEN JSONDecodeError ELSE JSONObjectValue(s, key, d) :
            key \in {scanstring(s, end)}, d \in {pairs}} : TRUE

\* json.scanner.py_make_scanner's _scan_once
scan_once(s, idx) ==
    LET nextchar == At(s, idx) IN
    IF nextchar < 0 THEN JSONDecodeError
    ELSE IF nextchar = 34 THEN scanstring(s, idx + 1)
    ELSE IF nextchar = 123 THEN
        LET end == SkipWhitespace(s, idx + 1) IN
        IF At(s, end) = 125 THEN Scanned(JDict(<<>>, <<>>), end + 1)
        ELSE IF At(s, end) # 34 THEN JSONDecodeError
        ELSE JSONObjectPairs(s, end + 1, JDict(<<>>, <<>>))
    ELSE IF nextchar = 91 THEN
        LET end == SkipWhitespace(s, idx + 1) IN
        IF At(s, end) = 93 THEN Scanned(JList(<<>>), end + 1)
        ELSE JSONArrayItems(s, end, <<>>)
    ELSE IF StartsWith(s, idx, Text(<<"n", "u", "l", "l">>)) THEN Scanned(JNull, idx + 4)
    ELSE IF StartsWith(s, idx, Text(<<"t", "r", "u", "e">>)) THEN Scanned(JBool(TRUE), idx + 4)
    ELSE IF StartsWith(s, idx, Text(<<"f", "a", "l", "s", "e">>)) THEN
        Scanned(JBool(FALSE), idx + 5)
    ELSE ScanNumber(s, idx)

\* json.loads(s): one value, surrounded by optional whitespace
json_loads(s) ==
    CHOOSE result \in
        {IF obj.err # "none" THEN [err |-> "JSONDecodeError", v |-> JNull]
         ELSE IF SkipWhitespace(s, obj.end) # Len(s) + 1 THEN
             [err |-> "JSONDecodeError", v |-> JNull]
         ELSE [err |-> "none", v |-> obj.v] :
            obj \in {scan_once(s, SkipWhitespace(s, 1))}} : TRUE

(***************************************************************************)
(* Domain models and schema instances.  An optional value is None or       *)
(* Some(v); a domain model carries, as "set", the names of the fields its   *)
(* caller set explicitly (the others hold the model's defaults).           *)
(***************************************************************************)
Names == {"a", "b"}
Types == {"orchestrator", "artifact_store"}

\* UserModel.get_hashed_password / get_hashed_activation_token
Hashed(secret) ==
    IF secret = None THEN None
    ELSE Some(CASE secret[1] = "pw" -> "hash(pw)" [] OTHER -> "hash(token)")

\* the fields of a UserModel that have a default
UserModel_optional == {"full_name", "email", "email_opted_in", "active", "password"}

UserModel(name, set) ==
    [kind |-> "user", id |-> 1, name |-> name,
     full_name |-> IF "full_name" \in set THEN "F" ELSE "",
     email |-> IF "email" \in set THEN Some("e") ELSE None,
     email_opted_in |-> IF "email_opted_in" \in set THEN Some(TRUE) ELSE None,
     active |-> "active" \in set,
     password |-> IF "password" \in set THEN Some("pw") ELSE None,
     activation_token |-> None,
     set |-> set \cup {"id", "name"}]

\* a domain model whose caller supplied no id
WithoutId(model) == [model EXCEPT !.id = NULL, !.set = @ \ {"id"}]

UserModels ==
    {UserModel(n, set) : n \in Names, set \in SUBSET UserModel_optional}
    \cup {WithoutId(UserModel("a", {}))}

TeamModels ==
    {[kind |-> "team", id |-> 1, name |-> n, set |-> {"id", "name"}] : n \in Names}
    \cup {[kind |-> "team", id |-> NULL, name |-> "a", set |-> {"name"}]}

RoleModels ==
    {[kind |-> "role", id |-> 1, name |-> n, set |-> {"id", "name"}] : n \in Names}
    \cup {[kind |-> "role", id |-> NULL, name |-> "a", set |-> {"name"}]}

ProjectModel(name, set) ==
    [kind |-> "project", id |-> 1, name |-> name,
     description |-> IF "description" \in set THEN "D" ELSE "",
     set |-> set \cup {"id", "name"}]

ProjectModels ==
    {ProjectModel(n, set) : n \in Names, set \in SUBSET {"description"}}
    \cup {WithoutId(ProjectModel("a", {}))}

\* the configurations the model draws: flat, nested, with every JSON type and
\* with characters that json.dumps escapes
Configurations ==
    { JDict(<<>>, <<>>),
      JDict(<<Text(<<"a">>)>>, <<JInt(1)>>),
      JDict(<<Text(<<"a">>), Text(<<"b">>), Text(<<"c">>)>>,
            <<JStr(Text(<<"x">>)),
              JList(<<JBool(TRUE), JNull, JStr(Text(<<"q", "\"", "\\", "e-acute", "\n">>))>>),
              JDict(<<>>, <<>>)>>),
      JDict(<<Text(<<"k", "euro">>)>>,
            <<JDict(<<Text(<<"n">>), Text(<<"f">>), Text(<<"l">>)>>,
                    <<JInt(0 - 12), JFloat(TRUE, 0, <<2, 5>>),
                      JList(<<JList(<<>>), JList(<<JInt(10), JBool(FALSE)>>)>>)>>)>>) }

ComponentModel(name, type, shared, configuration, t) ==
    [kind |-> "component", id |-> 1, name |-> name, type |-> type, flavor |-> "local",
     user |-> 1, project |-> 1,
     is_shared |-> shared = "True",
     configuration |-> configuration, created |-> t, updated |-> t,
     set |-> {"id", "name", "type", "flavor", "user", "project", "configuration"}
             \cup (IF shared = "unset" THEN {} ELSE {"is_shared"})]

ComponentModels(t) ==
    {ComponentModel(n, ty, sh, c, t) :
        n \in Names, ty \in Types, sh \in {"unset", "True", "False"}, c \in Configurations}
    \cup {WithoutId(ComponentModel("a", "orchestrator", "unset", JDict(<<>>, <<>>), t))}

StackUpdateModel_optional == {"name", "is_shared", "user", "project", "components"}

\* a field that is not set holds the default, None
StackUpdateModel(user, project, set) ==
    [kind |-> "stack_update",
     name |-> IF "name" \in set THEN "b" ELSE "",
     is_shared |-> "is_shared" \in set,
     user |-> IF "user" \in set THEN user ELSE NULL,
     project |-> IF "project" \in set THEN project ELSE NULL,
     components |-> IF "components" \in set THEN <<1>> ELSE <<>>,
     set |-> set]

StackUpdateModels ==
    {StackUpdateModel(u, p, set) :
        u \in {1, 2}, p \in {1, 2}, set \in SUBSET StackUpdateModel_optional}

\* the orders in which StackUpdateModel may declare its fields
StackUpdateModel_fields ==
    { <<"user", "project", "is_shared", "name", "components">>,
      <<"name", "user", "is_shared", "project", "components">>,
      <<"name", "is_shared", "components", "user", "project">> }

\* stack_update.dict(exclude_unset=True).items()
RECURSIVE DictItems(_, _)
DictItems(stack_update, order) ==
    IF Len(order) = 0 THEN <<>>
    ELSE (IF Head(order) \in stack_update.set THEN <<Head(order)>> ELSE <<>>)
         \o DictItems(stack_update, Tail(order))

(***************************************************************************)
(* The mapping functions of the schemas.  t is the value of datetime.now() *)
(* at the call.                                                            *)
(***************************************************************************)
UserSchema_from_create_model(model, t) ==
    [kind |-> "user", id |-> model.id, name |-> model.name,
     full_name |-> model.full_name, email |-> None, active |-> model.active,
     password |-> Hashed(model.password),
     activation_token |-> Hashed(model.activation_token),
     created |-> t, updated |-> t, email_opted_in |-> None]

UserSchema_from_update_model(self, model, t) ==
    [self EXCEPT !.name = model.name, !.full_name = model.full_name,
                 !.active = model.active, !.password = Hashed(model.password),
                 !.activation_token = Hashed(model.activation_token),
                 !.updated = t]

UserSchema_to_model(self) ==
    [kind |-> "user", id |-> self.id, name |-> self.name, full_name |-> self.full_name,
     email |-> self.email, email_opted_in |-> self.email_opted_in,
     active |-> self.active, password |-> self.password,
     activation_token |-> self.activation_token,
     created |-> self.created, updated |-> self.updated]

TeamSchema_from_create_model(model, t) ==
    [kind |-> "team", id |-> model.id, name |-> model.name, created |-> t, updated |-> t]

TeamSchema_from_update_model(self, model, t) ==
    [self EXCEPT !.name = model.name, !.updated = t]

TeamSchema_to_model(self) ==
    [kind |-> "team", id |-> self.id, name |-> self.name,
     created |-> self.created, updated |-> self.updated]

RoleSchema_from_create_model(model, t) ==
    [kind |-> "role", id |-> model.id, name |-> model.name, created |-> t, updated |-> t]

RoleSchema_from_update_model(self, model, t) ==
    [self EXCEPT !.name = model.name, !.updated = t]

\* the permissions of the model come from the role's permission rows, which
\* this part of the model leaves out
RoleSchema_to_model(self) ==
    [kind |-> "role", id |-> self.id, name |-> self.name,
     created |-> self.created, updated |-> self.updated]

ProjectSchema_from_create_model(project, t) ==
    [kind |-> "project", id |-> project.id, name |-> project.name,
     description |-> project.description, created |-> t, updated |-> t]

ProjectSchema_from_update_model(self, model, t) ==
    [self EXCEPT !.name = model.name, !.description = model.description, !.updated = t]

ProjectSchema_to_model(self) ==
    [kind |-> "project", id |-> self.id, name |-> self.name,
     description |-> self.description,
     created |-> self.created, updated |-> self.updated]

\* base64.b64encode(json.dumps(component.configuration).encode("utf-8"))
EncodeConfiguration(configuration) ==
    CHOOSE blob \in
        {b64encode(bytes) :
            bytes \in {utf8_encode(text) : text \in {json_dumps(configuration)}}} : TRUE

\* json.loads(base64.b64decode(self.configuration).decode())
DecodeText(text) ==
    IF text.err # "none" THEN [err |-> text.err, v |-> JNull] ELSE json_loads(text.text)

DecodeBytes(raw) ==
    IF raw.err # "none" THEN [err |-> raw.err, v |-> JNull]
    ELSE CHOOSE result \in {DecodeText(text) : text \in {utf8_decode(raw.bytes)}} : TRUE

DecodeConfiguration(blob) ==
    CHOOSE result \in {DecodeBytes(raw) : raw \in {b64decode(blob)}} : TRUE

StackComponentSchema_from_create_model(component) ==
    [kind |-> "component", id |-> component.id, name |-> component.name,
     project_id |-> component.project, user_id |-> component.user,
     is_shared |-> component.is_shared, type |-> component.type,
     flavor |-> component.flavor,
     configuration |-> EncodeConfiguration(component.configuration),
     created |-> component.created, updated |-> component.updated]

StackComponentSchema_from_update_model(self, component) ==
    [self EXCEPT !.name = component.name, !.is_shared = component.is_shared,
                 !.configuration = EncodeConfiguration(component.configuration)]

\* ComponentModel(...): the configuration of a component model is a mapping
ComponentModel_validate(configuration) ==
    IF configuration.t = "dict" THEN "none" ELSE "ValidationError"

\* ComponentModel(...) with the decoded configuration
ComponentModel_of(self, decoded) ==
    IF decoded.err # "none" THEN [err |-> decoded.err, model |-> NoModel]
    ELSE IF ComponentModel_validate(decoded.v) # "none" THEN
        [err |-> ComponentModel_validate(decoded.v), model |-> NoModel]
    ELSE [err |-> "none",
          model |-> [kind |-> "component", id |-> self.id, name |-> self.name,
                     type |-> self.type, flavor |-> self.flavor,
                     user |-> self.user_id, project |-> self.project_id,
                     is_shared |-> self.is_shared, configuration |-> decoded.v,
                     created |-> self.created, updated |-> self.updated]]

StackComponentSchema_to_model(self) ==
    CHOOSE result \in
        {ComponentModel_of(self, decoded) :
            decoded \in {DecodeConfiguration(self.configuration)}} : TRUE

\* the loop of StackSchema.update over the set fields; an assert statement
\* is executed only when __debug__ holds (python without -O)
RECURSIVE StackSchema_update_fields(_, _, _, _, _)
StackSchema_update_fields(self, items, stack_update, components, assertions) ==
    IF Len(items) = 0 THEN [err |-> "none", self |-> self]
    ELSE LET field == Head(items)
             rest == Tail(items)
         IN  IF field = "components" THEN
                 StackSchema_update_fields([self EXCEPT !.components = components],
                                           rest, stack_update, components, assertions)
             ELSE IF field = "user" THEN
                 IF assertions /\ self.user_id # stack_update.user
                 THEN [err |-> "AssertionError", self |-> self]
                 ELSE StackSchema_update_fields(self, rest, stack_update, components,
                                                assertions)
             ELSE IF field = "project" THEN
                 IF assertions /\ self.project_id # stack_update.project
                 THEN [err |-> "AssertionError", self |-> self]
                 ELSE StackSchema_update_fields(self, rest, stack_update, components,
                                                assertions)
             ELSE StackSchema_update_fields([self EXCEPT ![field] = stack_update[field]],
                                            rest, stack_update, components, assertions)

\* An update that stamps both timestamps of the row.
StackSchema_update_CreatedRestamped(self, stack_update, components, order, assertions, t) ==
    LET r == StackSchema_update_fields(self, DictItems(stack_update, order),
                                       stack_update, components, assertions)
    IN  IF r.err # "none" THEN r
        ELSE [err |-> "none", self |-> [r.self EXCEPT !.updated = t, !.created = t]]

StackSchema_update(self, stack_update, components, order, assertions, t) ==
    LET r == StackSchema_update_fields(self, DictItems(stack_update, order),
                                       stack_update, components, assertions)
    IN  IF r.err # "none" THEN r
        ELSE [err |-> "none", self |-> [r.self EXCEPT !.updated = t]]

(***************************************************************************)
(* Rows a session can load: what an earlier writer, this code or another,  *)
(* left in the table.                                                      *)
(***************************************************************************)
InsertAt(s, i, c) == SubSeq(s, 1, i) \o <<c>> \o SubSeq(s, i + 1, Len(s))

\* blobs that are the encoding of a mapping, and corrupted or foreign ones
StoredBlobs ==
    LET valid == {EncodeConfiguration(c) : c \in Configurations} IN
    valid
    \cup {Append(b, 10) : b \in valid}
    \cup {InsertAt(b, 2, 33) : b \in valid}
    \cup {InsertAt(b, 0, 61) : b \in valid}
    \cup {b \o b : b \in valid}
    \cup {SubSeq(b, 1, Len(b) - 1) : b \in valid}
    \cup {SubSeq(b, 2, Len(b)) : b \in valid}
    \cup {utf8_encode(json_dumps(c)) : c \in Configurations}
    \cup {b64encode(<<255>>), b64encode(<<123>>), b64encode(<<123, 34, 97, 34, 125>>),
          b64encode(utf8_encode(json_dumps(JList(<<JInt(1)>>)))),
          b64encode(utf8_encode(json_dumps(JStr(Text(<<"a">>))))),
          b64encode(utf8_encode(json_dumps(JNull))),
          <<>>}

StoredComponents ==
    {[kind |-> "component", id |-> 1, name |-> "a", project_id |-> 1, user_id |-> 1,
      is_shared |-> FALSE, type |-> "orchestrator", flavor |-> "local",
      configuration |-> b, created |-> 0, updated |-> 0] : b \in StoredBlobs}

\* the components a stack is associated with, in the order the relationship
\* loads them
ComponentLists == {<<>>, <<1, 2>>, <<1, 3>>}

StoredStacks ==
    {[kind |-> "stack", id |-> 1, name |-> "a", is_shared |-> sh, project_id |-> 1,
      user_id |-> u, components |-> c, created |-> 0, updated |-> 0] :
        sh \in BOOLEAN, u \in {NULL, 1}, c \in ComponentLists}

\* the rows the relationships of a stack row lead to
LinkedComponent(id) ==
    [kind |-> "component", id |-> id, name |-> "a", project_id |-> 1, user_id |-> 1,
     is_shared |-> FALSE, type |-> IF id = 3 THEN "artifact_store" ELSE "orchestrator",
     flavor |-> "local", configuration |-> EncodeConfiguration(JDict(<<>>, <<>>)),
     created |-> 0, updated |-> 0]

LinkedUser(id) ==
    [kind |-> "user", id |-> id, name |-> "a", full_name |-> "F", email |-> None,
     active |-> TRUE, password |-> None, activation_token |-> None,
     created |-> 0, updated |-> 0, email_opted_in |-> None]

LinkedProject(id) ==
    [kind |-> "project", id |-> id, name |-> "a", description |-> "", created |-> 0,
     updated |-> 0]

\* {c.type: [c.to_model()] for c in self.components}
RECURSIVE StackSchema_to_model_components(_, _)
StackSchema_to_model_components(components, dict) ==
    IF Len(components) = 0 THEN [err |-> "none", dict |-> dict]
    ELSE LET c == LinkedComponent(Head(components))
             r == CHOOSE result \in {StackComponentSchema_to_model(c)} : TRUE
         IN  IF r.err # "none" THEN [err |-> r.err, dict |-> dict]
             ELSE StackSchema_to_model_components(Tail(components),
                      [t \in DOMAIN dict \cup {c.type} |->
                          IF t = c.type THEN <<r.model>> ELSE dict[t]])

\* self.user is None when user_id is null
StackSchema_to_model(self) ==
    IF self.user_id = NULL THEN [err |-> "AttributeError", model |-> NoModel]
    ELSE LET cs == CHOOSE result \in
                       {StackSchema_to_model_components(self.components, <<>>)} : TRUE
         IN  IF cs.err # "none" THEN [err |-> cs.err, model |-> NoModel]
             ELSE [err |-> "none",
                   model |-> [kind |-> "stack", id |-> self.id, name |-> self.name,
                              user |-> UserSchema_to_model(LinkedUser(self.user_id)),
                              project |-> ProjectSchema_to_model(LinkedProject(self.project_id)),
                              is_shared |-> self.is_shared, components |-> cs.dict,
                              created |-> self.created, updated |-> self.updated]]

(***************************************************************************)
(* The calls of the mapping functions on one schema instance.              *)
(***************************************************************************)
Returned(op, self, result, err, arg, t) ==
    /\ schema' = self
    /\ returned' = result
    /\ call' = [op |-> op, err |-> err, arg |-> arg,
                after |-> IF op = "to_model" THEN call.after ELSE op]
    /\ now' = t
    /\ UNCHANGED <<debug, field_order, db, last>>
    /\ UNCHANGED txVars
    /\ UNCHANGED harnessVars

Times == now..MaxTime

FromCreateModelUser(m, t) ==
    Returned("from_create_model", UserSchema_from_create_model(m, t), NoModel, "none", m, t)

FromCreateModelTeam(m, t) ==
    Returned("from_create_model", TeamSchema_from_create_model(m, t), NoModel, "none", m, t)

FromCreateModelRole(m, t) ==
    Returned("from_create_model", RoleSchema_from_create_model(m, t), NoModel, "none", m, t)

FromCreateModelProject(m, t) ==
    Returned("from_create_model", ProjectSchema_from_create_model(m, t), NoModel, "none",
             m, t)

FromCreateModelComponent(m, t) ==
    Returned("from_create_model", StackComponentSchema_from_create_model(m), NoModel,
             "none", m, t)

FromUpdateModelUser(m, t) ==
    /\ schema.kind = "user"
    /\ Returned("from_update_model", UserSchema_from_update_model(schema, m, t), NoModel,
                "none", m, t)

FromUpdateModelTeam(m, t) ==
    /\ schema.kind = "team"
    /\ Returned("from_update_model", TeamSchema_from_update_model(schema, m, t), NoModel,
                "none", m, t)

FromUpdateModelRole(m, t) ==
    /\ schema.kind = "role"
    /\ Returned("from_update_model", RoleSchema_from_update_model(schema, m, t), NoModel,
                "none", m, t)

FromUpdateModelProject(m, t) ==
    /\ schema.kind = "project"
    /\ Returned("from_update_model", ProjectSchema_from_update_model(schema, m, t),
                NoModel, "none", m, t)

FromUpdateModelComponent(m, t) ==
    /\ schema.kind = "component"
    /\ Returned("from_update_model", StackComponentSchema_from_update_model(schema, m),
                NoModel, "none", m, t)

UpdateStack(stack_update, components, t) ==
    /\ schema.kind = "stack"
    /\ \E r \in {StackSchema_update(schema, stack_update, components, field_order,
                                     debug, t)} :
          Returned("update", r.self, NoModel, r.err, stack_update, t)

\* to_model of the instance's class
to_model(self) ==
    CASE self.kind = "user" -> [err |-> "none", model |-> UserSchema_to_model(self)]
      [] self.kind = "team" -> [err |-> "none", model |-> TeamSchema_to_model(self)]
      [] self.kind = "role" -> [err |-> "none", model |-> RoleSchema_to_model(self)]
      [] self.kind = "project" -> [err |-> "none", model |-> ProjectSchema_to_model(self)]
      [] self.kind = "component" -> StackComponentSchema_to_model(self)
      [] self.kind = "stack" -> StackSchema_to_model(self)

ToModel ==
    /\ schema.kind \in {"user", "team", "role", "project", "component", "stack"}
    /\ \E r \in {to_model(schema)} :
          Returned("to_model", schema, r.model, r.err, call.arg, now)

LoadComponent(row, t) == Returned("load", row, NoModel, "none", NoModel, t)

LoadStack(row, t) == Returned("load", row, NoModel, "none", NoModel, t)

MapIdle ==
    /\ schema = NoSchema
    /\ returned = NoModel
    /\ call = [op |-> "none", err |-> "none", arg |-> NoModel, after |-> "none"]
    /\ now = 0

InitMap ==
    /\ db = EmptyDb
    /\ last = [op |-> "init", err |-> "none", hit |-> {}]
    /\ MapIdle
    /\ debug = TRUE
    /\ field_order = <<>>
    /\ tx = NoTx
    /\ pending = NoPending
    /\ HarnessIdle

NextMap ==
    \/ \E t \in Times, m \in UserModels : FromCreateModelUser(m, t)
    \/ \E t \in Times, m \in TeamModels : FromCreateModelTeam(m, t)
    \/ \E t \in Times, m \in RoleModels : FromCreateModelRole(m, t)
    \/ \E t \in Times, m \in ProjectModels : FromCreateModelProject(m, t)
    \/ \E t \in Times : \E m \in ComponentModels(t) : FromCreateModelComponent(m, t)
    \/ \E t \in Times, m \in UserModels : FromUpdateModelUser(m, t)
    \/ \E t \in Times, m \in TeamModels : FromUpdateModelTeam(m, t)
    \/ \E t \in Times, m \in RoleModels : FromUpdateModelRole(m, t)
    \/ \E t \in Times, m \in ProjectModels : FromUpdateModelProject(m, t)
    \/ \E t \in Times : \E m \in ComponentModels(t) : FromUpdateModelComponent(m, t)
    \/ ToModel
    \/ \E t \in Times, row \in StoredComponents : LoadComponent(row, t)

SpecMap == InitMap /\ [][NextMap]_vars

\* StackSchema.update on a loaded stack row, under either setting of
\* __debug__ and any of the field orders
InitStack ==
    /\ db = EmptyDb
    /\ last = [op |-> "init", err |-> "none", hit |-> {}]
    /\ MapIdle
    /\ debug \in BOOLEAN
    /\ field_order \in StackUpdateModel_fields
    /\ tx = NoTx
    /\ pending = NoPending
    /\ HarnessIdle

NextStack ==
    \/ \E t \in Times, row \in StoredStacks : LoadStack(row, t)
    \/ \E t \in Times, u \in StackUpdateModels :
          \E c \in IF "components" \in u.set THEN ComponentLists ELSE {<<>>} :
              UpdateStack(u, c, t)

SpecStack == InitStack /\ [][NextStack]_vars

\* StackSchema.to_model called on a loaded stack row
NextRead ==
    \/ \E t \in Times, row \in StoredStacks : LoadStack(row, t)
    \/ ToModel

SpecRead == InitStack /\ [][NextRead]_vars

(***************************************************************************)
(* Properties of the mapping functions.                                    *)
(***************************************************************************)

\* C4: the configuration round trip.  Whenever from_create_model or
\* from_update_model has stored the blob of a configuration mapping C, decoding
\* that blob as to_model does succeeds and yields C, and a to_model that follows
\* returns a component model whose configuration is C (same keys, values and
\* nesting).
C4_ConfigurationRoundTrip ==
    (schema.kind = "component"
     /\ call.after \in {"from_create_model", "from_update_model"}) =>
        /\ DecodeConfiguration(schema.configuration)
             = [err |-> "none", v |-> call.arg.configuration]
        /\ call.op = "to_model" =>
             (call.err = "none" /\ returned.configuration = call.arg.configuration)

C4_Witness ==
    /\ call.op = "to_model"
    /\ call.after = "from_update_model"
    /\ schema.kind = "component"
    /\ returned.kind = "component"
    /\ Len(returned.configuration.keys) = 3
    /\ returned.configuration.items[2].t = "list"

\* the scalar fields of a domain model that its schema is to give back
RoundTripFields(kind) ==
    CASE kind = "user" -> {"name", "full_name", "email", "email_opted_in", "active"}
      [] kind = "project" -> {"name", "description"}
      [] kind = "component" -> {"name", "type", "flavor", "user", "project", "is_shared"}
      [] OTHER -> {"name"}

\* C5: the create/to-model round trip.  A to_model that follows
\* from_create_model(M) succeeds and returns a model equal to M on every scalar
\* field that is not generated: name, full_name, email, email_opted_in and active
\* of a User, name and description of a Project, the name of a Team or Role.
C5_CreateToModelRoundTrip ==
    (call.op = "to_model" /\ call.after = "from_create_model") =>
        /\ call.err = "none"
        /\ \A f \in RoundTripFields(schema.kind) : returned[f] = call.arg[f]

\* the errors with which the code refuses a change of an immutable association
ConsistencyErrors == {"ConsistencyError", "AssertionError"}

\* the update sets user or project to a value that is not the row's
ChangesAssociation(self, stack_update) ==
    \/ "user" \in stack_update.set /\ stack_update.user # self.user_id
    \/ "project" \in stack_update.set /\ stack_update.project # self.project_id

\* C8: StackSchema.update with an update that sets user or project to a value
\* other than the row's user_id or project_id fails with an explicit error, and
\* an update that sets them to the row's values (or not at all) succeeds.
C8_ImmutableAssociationRefused ==
    [][call'.op = "update" =>
          IF ChangesAssociation(schema, call'.arg)
          THEN call'.err \in ConsistencyErrors
          ELSE call'.err = "none"]_vars

\* strict base64: characters of the alphabet in quads, padded at the end only
IsBase64(blob) ==
    /\ Len(blob) % 4 = 0
    /\ \A i \in 1..Len(blob) :
          \/ B64Index(blob[i]) >= 0
          \/ /\ blob[i] = 61
             /\ i >= Len(blob) - 1
             /\ blob[Len(blob)] = 61

IsEncodingOfMapping(blob) ==
    /\ IsBase64(blob)
    /\ DecodeConfiguration(blob).err = "none"
    /\ DecodeConfiguration(blob).v.t = "dict"

\* the errors with which the code refuses a blob it cannot decode
DecodeErrors ==
    {"DecodeError", "binascii.Error", "UnicodeDecodeError", "JSONDecodeError",
     "ValidationError"}

\* C9: StackComponentSchema.to_model fails with a decoding error whenever the
\* stored blob is not the encoding of a mapping (invalid base64, invalid UTF-8,
\* invalid JSON, or JSON that is not an object), and returns no model then.
C9_UndecodableBlobRefused ==
    (call.op = "to_model" /\ schema.kind = "component"
     /\ ~IsEncodingOfMapping(schema.configuration)) =>
        (call.err \in DecodeErrors /\ returned.kind = "none")

\* the field of the update model that a column of the row comes from
ModelField(column) ==
    CASE column = "user_id" -> "user"
      [] column = "project_id" -> "project"
      [] OTHER -> column

\* C10: partial update.  A call of StackSchema.update or of a from_update_model
\* leaves every column whose field is not set in the update model at the value
\* it had before the call, `updated` excepted.
C10_PartialUpdate ==
    [][call'.op \in {"from_update_model", "update"} =>
          \A column \in DOMAIN schema \ {"kind", "updated"} :
              ModelField(column) \notin call'.arg.set => schema'[column] = schema[column]]_vars

\* the calls that update a row in place
UpdateOps == {"from_update_model", "update"}

\* C11: `updated` is refreshed on every successful mutation.  After a
\* successful from_update_model or update on a row, the row's `updated` is the
\* time of that call (and so never older than before).
C11_UpdatedRefreshed ==
    [][(call'.op \in UpdateOps /\ call'.err = "none") =>
          (schema'.updated = now' /\ schema'.updated >= schema.updated)]_vars

C13_IdGenerated ==
    [][call'.op = "from_create_model" =>
          /\ schema'.id # NULL
          /\ call'.arg.id # NULL => schema'.id = call'.arg.id
          /\ (call.op = "from_create_model" /\ call.arg.id = NULL /\ call'.arg.id = NULL
               /\ schema.kind = schema'.kind) => schema'.id # schema.id]_vars

\* C14: every StackComposition row references a Stack row and a StackComponent
\* row that exist, after every step (creates, association inserts, deletes of
\* either parent, project cascades, user deletes); a direct delete of a stack
\* deletes no component and a direct delete of a component deletes no stack.
C14_CompositionReferencesExist ==
    [][/\ \A pair \in DOMAIN db'.stack_composition :
              db'.stack_composition[pair] > 0 =>
                  pair[1] \in DOMAIN db'.stack /\ pair[2] \in DOMAIN db'.stack_component
       /\ \A s \in StackIds : DeleteStack(s) => db'.stack_component = db.stack_component
       /\ \A c \in ComponentIds : DeleteStackComponent(c) => db'.stack = db.stack]_vars

C14_Witness ==
    /\ last.op = "delete_stack_component" /\ last.err = "none"
    /\ "stack_composition" \in last.hit
    /\ DOMAIN db.stack # {} /\ DOMAIN db.stack_component = {}

\* C15: in every reachable state every Stack row and every StackComponent row
\* has a project_id that is not null and is the id of an existing Project row.
C15_ProjectReferenceExists ==
    \A t \in {"stack", "stack_component"} : \A r \in DOMAIN db[t] :
        db[t][r].project_id # NULL /\ db[t][r].project_id \in db.project

C15_Witness ==
    /\ last.op = "delete_project" /\ last.err = "none"
    /\ "stack" \in last.hit
    /\ DOMAIN db.stack = {} /\ DOMAIN db.stack_component # {}

\* C17: a step that deletes role r leaves no UserRoleAssignment,
\* TeamRoleAssignment or RolePermission row that references r, and deletes no
\* User, Team or Project row.
C17_RoleDeleteCascade ==
    [][\A r \in RoleIds : Deleted("role", r) =>
          /\ \A t \in {"user_role_assignment", "team_role_assignment", "role_permission"} :
                 /\ \A k \in DOMAIN db[t] : db[t][k].role_id = r => k \notin DOMAIN db'[t]
                 /\ \A k \in DOMAIN db'[t] : db'[t][k].role_id # r
          /\ db'.user = db.user /\ db'.team = db.team /\ db'.project = db.project]_vars

C17_Witness ==
    /\ last.op = "delete_role" /\ last.err = "none"
    /\ last.hit = {"user_role_assignment", "team_role_assignment", "role_permission"}
    /\ db.user # {} /\ db.team # {} /\ db.project # {}

\* C18: every TeamAssignment row references a User and a Team that exist, after
\* every step; a step that deletes a user or a team removes the TeamAssignment
\* rows that reference it, a user delete deletes no team and a team delete no
\* user.
C18_TeamAssignmentCascade ==
    [][/\ \A pair \in DOMAIN db'.team_assignment :
              db'.team_assignment[pair] > 0 => pair[1] \in db'.user /\ pair[2] \in db'.team
       /\ \A u \in UserIds : Deleted("user", u) =>
              /\ db'.team = db.team
              /\ \A t \in TeamIds : db'.team_assignment[<<u, t>>] = 0
       /\ \A t \in TeamIds : Deleted("team", t) =>
              /\ db'.user = db.user
              /\ \A u \in UserIds : db'.team_assignment[<<u, t>>] = 0]_vars

C18_Witness ==
    /\ last.op = "delete_team" /\ last.err = "none"
    /\ "team_assignment" \in last.hit
    /\ db.user # {}

\* the components a stack model reports
ReportedComponents(model) ==
    {model.components[t][i].id :
        t \in DOMAIN model.components, i \in 1..1}

\* C16: the components StackSchema.to_model reports for a stack are exactly the
\* components the stack is associated with, none missing and none extra, also
\* when several of them have the same type.
C16_ComponentsReflectRows ==
    (call.op = "to_model" /\ schema.kind = "stack" /\ call.err = "none") =>
        ReportedComponents(returned) = {schema.components[i] : i \in DOMAIN schema.components}

(***************************************************************************)
(* Two sessions that update the same committed row.  Each session loads    *)
(* the row, calls the row's update function on its own copy and commits;   *)
(* the commit is the UPDATE statement the unit of work emits, which sets   *)
(* the columns whose value differs from the value the session loaded.      *)
(* Nothing orders the steps of one session against the other's: the store  *)
(* keeps no version counter on the row.                                    *)
(***************************************************************************)
Sessions == {1, 2}

\* the rows the sessions race for, stored before the clock's first reading
RaceRows ==
    { [LinkedProject(1) EXCEPT !.created = 0 - 1, !.updated = 0 - 1],
      [LinkedComponent(1) EXCEPT !.created = 0 - 1, !.updated = 0 - 1],
      [kind |-> "stack", id |-> 1, name |-> "a", is_shared |-> FALSE, project_id |-> 1,
       user_id |-> 1, components |-> <<>>, created |-> 0 - 1, updated |-> 0 - 1] }

\* the updates a session may apply to a row of each kind
RaceUpdates(kind) ==
    CASE kind = "project" -> ProjectModels
      [] kind = "component" ->
           {ComponentModel(n, "orchestrator", sh, JDict(<<>>, <<>>), 0) :
               n \in Names, sh \in {"True", "False"}}
      [] kind = "stack" ->
           {[StackUpdateModel(1, 1, set) EXCEPT !.name = IF "name" \in set THEN n ELSE @] :
               n \in Names, set \in SUBSET {"name", "is_shared"}}

\* the update function of the row's class, called on the session's copy
SessionUpdate(self, m, t) ==
    CASE self.kind = "project" ->
           [err |-> "none", self |-> ProjectSchema_from_update_model(self, m, t)]
      [] self.kind = "component" ->
           [err |-> "none", self |-> StackComponentSchema_from_update_model(self, m)]
      [] self.kind = "stack" -> StackSchema_update(self, m, <<>>, field_order, debug, t)

\* UPDATE ... SET the columns the session changed WHERE id = the row's id
Flushed(row, loaded, obj) ==
    [c \in DOMAIN row |-> IF obj[c] # loaded[c] THEN obj[c] ELSE row[c]]

IdleSession == [pc |-> "idle", loaded |-> NoSchema, obj |-> NoSchema, arg |-> NoModel, t |-> 0]

TxStep(t2, t) ==
    /\ tx' = t2
    /\ now' = t
    /\ UNCHANGED <<db, last, schema, returned, call, debug, field_order, pending>>
    /\ UNCHANGED harnessVars

SessionLoads(i) ==
    /\ tx.s[i].pc = "idle"
    /\ TxStep([tx EXCEPT !.s[i] = [@ EXCEPT !.pc = "loaded", !.loaded = tx.row,
                                            !.obj = tx.row]], now)

SessionUpdates(i, m, t) ==
    /\ tx.s[i].pc = "loaded"
    /\ \E r \in {SessionUpdate(tx.s[i].obj, m, t)} :
          /\ r.err = "none"
          /\ TxStep([tx EXCEPT !.s[i] = [@ EXCEPT !.pc = "updated", !.obj = r.self,
                                                  !.arg = m, !.t = t]], t)

SessionCommits(i) ==
    /\ tx.s[i].pc = "updated"
    /\ TxStep([tx EXCEPT !.row = Flushed(@, tx.s[i].loaded, tx.s[i].obj),
                         !.s[i] = [@ EXCEPT !.pc = "committed"],
                         !.order = Append(@, i)], now)

InitRace ==
    /\ db = EmptyDb
    /\ last = [op |-> "init", err |-> "none", hit |-> {}]
    /\ MapIdle
    /\ debug = TRUE
    /\ field_order = CHOOSE order \in StackUpdateModel_fields : TRUE
    /\ tx \in {[row |-> row, s |-> [i \in Sessions |-> IdleSession], order |-> <<>>] :
                 row \in RaceRows}
    /\ pending = NoPending
    /\ HarnessIdle

NextRace ==
    \/ \E i \in Sessions : SessionLoads(i)
    \/ \E i \in Sessions, t \in Times :
          \E m \in RaceUpdates(tx.row.kind) : SessionUpdates(i, m, t)
    \/ \E i \in Sessions : SessionCommits(i)

SpecRace == InitRace /\ [][NextRace]_vars

\* the columns of the row that an update model sets
SetColumns(row, m) == {c \in DOMAIN row \ {"kind", "id"} : ModelField(c) \in m.set}

\* C19: two concurrent updates of one row are last-write-wins.  Once both have
\* committed, the row's `updated` is the time of the update that committed last,
\* and every column that both updates set holds the value the last committer's
\* update gave it (not the earlier update's, and not a value neither wrote).
C19_LastWriteWins ==
    Len(tx.order) = 2 =>
        LET first == tx.s[tx.order[1]]
            second == tx.s[tx.order[2]]
        IN  /\ tx.row.updated = second.t
            /\ \A c \in SetColumns(tx.row, first.arg) \cap SetColumns(tx.row, second.arg) :
                   tx.row[c] = second.obj[c]

(***************************************************************************)
(* A delete as the transaction that carries it out.  The unit of work      *)
(* emits one statement per table that holds dependents of the row (the     *)
(* relationship's cascade, or the clearing of the reference), then the      *)
(* DELETE of the row itself, on which the engine applies the foreign key   *)
(* actions to whatever still references it; the statements change the      *)
(* transaction's working copy, and the commit publishes it.  One writer    *)
(* holds the store at a time; readers are not held back.                   *)
(***************************************************************************)
AllTables ==
    {"project", "user", "team", "role", "stack", "stack_component", "stack_composition",
     "team_assignment", "role_permission", "pipeline", "pipeline_run",
     "user_role_assignment", "team_role_assignment"}

\* the statement of the unit of work on table t: t's rows become what the
\* delete makes of them, and the association rows of deleted stacks and
\* components go with them
Statement(work, result, t) ==
    CASE t = "stack" ->
           [DeleteStackRows(work, DOMAIN work.stack \ DOMAIN result.stack)
               EXCEPT !.stack = result.stack]
      [] t = "stack_component" ->
           [DeleteStackComponentRows(work,
                DOMAIN work.stack_component \ DOMAIN result.stack_component)
               EXCEPT !.stack_component = result.stack_component]
      [] OTHER -> [work EXCEPT ![t] = result[t]]

\* what a concurrent reader sees: the committed rows
Visible(committed, p) == committed

BeginDelete(table, id, r, hit) ==
    /\ pending.op = "none"
    /\ id \in db[table]
    /\ pending' = [op |-> "delete_" \o table, table |-> table, id |-> id, work |-> db,
                   result |-> r.db, err |-> r.err, hit |-> hit, flushed |-> FALSE,
                   left |-> {t \in AllTables \ {table} : r.db[t] # db[t]}]
    /\ UNCHANGED <<db, last, tx>>
    /\ UNCHANGED harnessVars
    /\ UNCHANGED mapVars

BeginDeleteProject(p) ==
    BeginDelete("project", p, ProjectDelete(db, p), Dependents(db, "project_id", p))

BeginDeleteUser(u) ==
    BeginDelete("user", u, UserDelete(db, u),
                Dependents(db, "user_id", u) \cup TeamAssignmentDependents(db, 1, u))

FlushStatement(t) ==
    /\ pending.op # "none"
    /\ t \in pending.left
    /\ pending' = [pending EXCEPT !.work = Statement(@, pending.result, t),
                                  !.left = @ \ {t}]
    /\ UNCHANGED <<db, last, tx>>
    /\ UNCHANGED harnessVars
    /\ UNCHANGED mapVars

\* DELETE of the row itself, with the engine's foreign key actions
FlushDelete ==
    /\ pending.op # "none"
    /\ pending.left = {}
    /\ ~pending.flushed
    /\ pending' = [pending EXCEPT !.work = pending.result, !.flushed = TRUE]
    /\ UNCHANGED <<db, last, tx>>
    /\ UNCHANGED harnessVars
    /\ UNCHANGED mapVars

\* commit, or roll back when the engine refused a statement
Commit ==
    /\ pending.op # "none"
    /\ pending.flushed
    /\ db' = IF pending.err = "none" THEN pending.work ELSE db
    /\ last' = [op |-> pending.op, err |-> pending.err, hit |-> pending.hit]
    /\ pending' = NoPending
    /\ UNCHANGED tx
    /\ UNCHANGED harnessVars
    /\ UNCHANGED mapVars

NextTx ==
    \/ pending.op = "none" /\ \E p \in ProjectIds : CreateProject(p)
    \/ pending.op = "none" /\ \E u \in UserIds : CreateUser(u)
    \/ pending.op = "none" /\ \E r \in RoleIds : CreateRole(r)
    \/ pending.op = "none" /\
         \E s \in StackIds, p \in ProjectIds, u \in UserIds \cup {NULL}, sh \in BOOLEAN :
             CreateStack(s, p, u, sh)
    \/ pending.op = "none" /\
         \E c \in ComponentIds, p \in ProjectIds, u \in UserIds \cup {NULL}, sh \in BOOLEAN :
             CreateStackComponent(c, p, u, sh)
    \/ pending.op = "none" /\ \E s \in StackIds, c \in ComponentIds : InsertStackComposition(s, c)
    \/ pending.op = "none" /\
         \E a \in AssignmentIds, r \in RoleIds, u \in UserIds, p \in ProjectIds \cup {NULL} :
             AssignUserRole(a, r, u, p)
    \/ \E p \in ProjectIds : BeginDeleteProject(p)
    \/ \E u \in UserIds : BeginDeleteUser(u)
    \/ \E t \in AllTables : FlushStatement(t)
    \/ FlushDelete
    \/ Commit

SpecTx == Init /\ [][NextTx]_vars

\* the table a foreign key column references
Target(col) ==
    CASE col = "project_id" -> "project"
      [] col = "user_id" -> "user"
      [] col = "role_id" -> "role"
      [] col = "team_id" -> "team"

\* no row references a row that does not exist
NoDanglingReference(d) ==
    /\ \A t \in {"stack", "stack_component", "pipeline", "pipeline_run",
                  "user_role_assignment", "team_role_assignment", "role_permission"} :
          \A r \in DOMAIN d[t] :
              \A col \in DOMAIN d[t][r] \cap {"project_id", "user_id", "role_id", "team_id"} :
                  d[t][r][col] # NULL => d[t][r][col] \in Ids(d, Target(col))
    /\ \A pair \in DOMAIN d.stack_composition :
          d.stack_composition[pair] > 0 =>
              pair[1] \in DOMAIN d.stack /\ pair[2] \in DOMAIN d.stack_component
    /\ \A pair \in DOMAIN d.team_assignment :
          d.team_assignment[pair] > 0 => pair[1] \in d.user /\ pair[2] \in d.team

StackRow(d, s) ==
    [kind |-> "stack", id |-> s, name |-> "a", is_shared |-> d.stack[s].is_shared,
     project_id |-> d.stack[s].project_id, user_id |-> d.stack[s].user_id,
     components |-> SelectSeq([i \in 1..MaxComponents |-> i],
                              LAMBDA c : d.stack_composition[<<s, c>>] > 0),
     created |-> 0, updated |-> 0]

\* C28: in every reachable state StackSchema.to_model succeeds for every
\* existing stack row; for a stack whose user reference is null (its creator
\* was deleted) the model's user is null.
C28_StackToModelSucceeds ==
    \A s \in DOMAIN db.stack :
        LET r == CHOOSE result \in {StackSchema_to_model(StackRow(db, s))} : TRUE
        IN  /\ r.err = "none"
            /\ db.stack[s].user_id = NULL => r.model.user = NULL

\* C29: a failed update leaves the row unchanged.  When StackSchema.update
\* fails, no field of the row, its components or its `updated` differs from
\* before the call.
C29_FailedUpdateLeavesRow ==
    [][(call'.op = "update" /\ call'.err # "none") => schema' = schema]_vars

(***************************************************************************)
(* The test harness (tests/harness).                                       *)
(*                                                                         *)
(* BaseTestDeployment.connect: a generator-based context manager.  Its     *)
(* code up to the yield runs on entry; its code after the yield runs when  *)
(* the body completes, and does not run when the body raises, because the  *)
(* exception is raised at the yield and the yield is in no try statement.  *)
(***************************************************************************)
MaxDepth == 2

\* the store variables while only the harness runs
StoreIdle ==
    /\ db = EmptyDb
    /\ last = [op |-> "init", err |-> "none", hit |-> {}]
    /\ MapIdle
    /\ debug = TRUE
    /\ field_order = <<>>
    /\ tx = NoTx
    /\ pending = NoPending

DeploymentNames == {"default", "docker"}

\* BaseTestDeployment.global_config_path: get_root_path() / config.name
global_config_path(name) == "/tmp/zenml-test/" \o name

\* what get_store_config() does in connect: no store configuration (the
\* default deployment), the url of a server, or RuntimeError (a deployment
\* that is not running)
StoreConfigs == {"None", "url", "RuntimeError"}

\* the state a harness call works on: the process (environment variables,
\* singletons, open contexts), the file system, the deployment and its store
World ==
    [environ |-> environ, gc |-> gc, client |-> client, contexts |-> contexts,
     config_dirs |-> config_dirs, deployment |-> env_deployment, components |-> store_components]

SetWorld(w) ==
    /\ environ' = w.environ
    /\ gc' = w.gc
    /\ client' = w.client
    /\ contexts' = w.contexts
    /\ config_dirs' = w.config_dirs
    /\ env_deployment' = w.deployment
    /\ store_components' = w.components

\* a new object: an identity no live object has
NewObject(w, others) ==
    LET live == {w.gc, w.client} \cup others
                \cup {w.contexts[i].original_config : i \in DOMAIN w.contexts}
                \cup {w.contexts[i].original_client : i \in DOMAIN w.contexts}
    IN  CHOOSE i \in 1..(Cardinality(live) + 1) : i \notin live

\* connect up to its yield
connect_enter(w, name, store_config) ==
    LET new_gc == NewObject(w, {})
        reset == [w EXCEPT !.config_dirs = @ \cup {name},
                           !.environ = [ZENML_CONFIG_PATH |-> global_config_path(name),
                                        ZENML_ANALYTICS_OPT_IN |-> "false"],
                           !.gc = new_gc,
                           !.client = 0]
    IN  IF store_config = "RuntimeError" THEN [err |-> "RuntimeError", w |-> reset]
        ELSE [err |-> "none",
              w |-> [reset EXCEPT
                        !.client = NewObject(w, {new_gc}),
                        !.contexts = Append(@,
                            [original_config |-> w.gc, original_client |-> w.client,
                             orig_config_path |-> w.environ.ZENML_CONFIG_PATH])]]

\* connect from its yield to its end
connect_exit(w) ==
    LET saved == w.contexts[Len(w.contexts)] IN
    [w EXCEPT !.environ.ZENML_CONFIG_PATH =
                  IF saved.orig_config_path \notin {Unset, ""}
                  THEN saved.orig_config_path ELSE Unset,
              !.gc = saved.original_config,
              !.client = saved.original_client,
              !.contexts = SubSeq(@, 1, Len(@) - 1)]

\* an exception raised at the yield of connect: the context is left as it is
connect_raise(w) == [w EXCEPT !.contexts = SubSeq(@, 1, Len(@) - 1)]

\* `with deployment.connect()` is entered
Connect(name, store_config) ==
    /\ Len(contexts) < MaxDepth
    /\ SetWorld(connect_enter(World, name, store_config).w)
    /\ UNCHANGED <<requirements, epc, elog>>
    /\ UNCHANGED <<storeVars, singletonVars, dockerVars, stackVars>>

\* the body completes
ConnectExit ==
    /\ contexts # <<>>
    /\ SetWorld(connect_exit(World))
    /\ UNCHANGED <<requirements, epc, elog>>
    /\ UNCHANGED <<storeVars, singletonVars, dockerVars, stackVars>>

\* the body raises
ConnectRaise ==
    /\ contexts # <<>>
    /\ SetWorld(connect_raise(World))
    /\ UNCHANGED <<requirements, epc, elog>>
    /\ UNCHANGED <<storeVars, singletonVars, dockerVars, stackVars>>

InitConnect ==
    /\ StoreIdle
    /\ environ \in {[ZENML_CONFIG_PATH |-> v, ZENML_ANALYTICS_OPT_IN |-> Unset] :
                       v \in {Unset, "", "/home/user/.config/zenml"}}
    /\ gc \in {0, 1}
    /\ client \in {0, 2}
    /\ contexts = <<>>
    /\ config_dirs \in SUBSET DeploymentNames
    /\ SingletonIdle
    /\ DockerIdle
    /\ EnvIdle
    /\ StackIdle

NextConnect ==
    \/ \E name \in DeploymentNames, store_config \in StoreConfigs : Connect(name, store_config)
    \/ ConnectExit
    \/ ConnectRaise

SpecConnect == InitConnect /\ [][NextConnect]_vars

\* C21: connect is a scoped acquisition released on every exit path.  Whenever
\* a connect context is left, by the body completing or by the body raising,
\* ZENML_CONFIG_PATH (its value or its absence) and the GlobalConfiguration
\* and Client singleton instances are what they were when that context was
\* entered; the innermost open context is the one that is left.
C21_ConnectReleased ==
    [][Len(contexts') < Len(contexts) =>
          LET entry == contexts[Len(contexts)] IN
          /\ environ'.ZENML_CONFIG_PATH = entry.orig_config_path
          /\ gc' = entry.original_config
          /\ client' = entry.original_client]_vars

(***************************************************************************)
(* The TestHarness singleton.  The configuration files name deployments    *)
(* and environments; an environment names the deployment it runs on.       *)
(***************************************************************************)
EnvironmentNames == {"e1", "e2"}

\* the configurations load_config can find: the deployments, and for each
\* environment the name of its deployment
HarnessConfigs ==
    {[deployments |-> D, environments |-> E] :
        D \in SUBSET DeploymentNames,
        E \in UNION {[S -> DeploymentNames] : S \in SUBSET EnvironmentNames}}

NoObject == [kind |-> "None"]

\* TestHarness.__init__: the attributes compile() assigns do not exist yet
TestHarness_init(config) ==
    [config |-> config, active_environment |-> NoObject, attrs |-> {},
     deployment_configs |-> {}, deployments |-> {}, environments |-> <<>>]

\* EnvironmentConfig.compile: the deployment an environment names must be
\* one of the harness's deployment configurations
EnvironmentConfig_compile(self, deployment) ==
    IF deployment \in self.deployment_configs THEN "none" ELSE "ValueError"

\* TestHarness.get_deployment, on the instance a TestHarness() call returned
TestHarness_get_deployment(self, name) ==
    IF "deployments" \notin self.attrs THEN [err |-> "AttributeError", v |-> NoObject]
    ELSE IF name \notin self.deployments THEN [err |-> "KeyError", v |-> NoObject]
    ELSE [err |-> "none", v |-> [kind |-> "BaseTestDeployment", name |-> name]]

\* TestHarnessMetaClass.__call__ made while an instance exists or is being
\* compiled (with no instance the call would construct one and compile it)
TestHarness_call(instance) ==
    IF instance # 0 THEN [err |-> "none", ret |-> instance]
    ELSE [err |-> "RecursionError", ret |-> 0]

\* EnvironmentConfig.get_environment: TestHarness().get_deployment(...)
EnvironmentConfig_get_environment(obj, instance, instances) ==
    IF obj.kind # "EnvironmentConfig" THEN [err |-> "AttributeError", v |-> NoObject]
    ELSE LET h == TestHarness_call(instance) IN
         IF h.err # "none" THEN [err |-> h.err, v |-> NoObject]
         ELSE LET d == TestHarness_get_deployment(instances[h.ret], obj.deployment) IN
              IF d.err # "none" THEN [err |-> d.err, v |-> NoObject]
              ELSE [err |-> "none",
                    v |-> [kind |-> "TestEnvironment", config |-> obj.name,
                           deployment |-> obj.deployment]]

\* A compile that builds the environments before the deployments.
compile_order_EnvironmentsFirst == <<"configs", "environments", "deployments">>

\* the three parts of TestHarness.compile, in the order of the code
compile_order == <<"configs", "deployments", "environments">>

\* the names of a configuration's environments, in the order of the list
RECURSIVE SeqOf(_)
SeqOf(S) == IF S = {} THEN <<>> ELSE LET x == CHOOSE x \in S : TRUE IN <<x>> \o SeqOf(S \ {x})

\* TestHarness(): returns the instance; the first call constructs it and
\* enters compile()
CallTestHarness(config) ==
    /\ hpc.pc = "idle"
    /\ IF cls_harness # 0
       THEN /\ hcall' = [op |-> "TestHarness", reentrant |-> FALSE, err |-> "none",
                         ret |-> cls_harness]
            /\ UNCHANGED <<cls_harness, harness, hpc, compiles>>
       ELSE /\ harness' = Append(harness, TestHarness_init(config))
            /\ cls_harness' = Len(harness) + 1
            /\ compiles' = compiles + 1
            /\ hpc' = [pc |-> "compile", step |-> 1, todo |-> <<>>, built |-> <<>>]
            /\ hcall' = [op |-> "TestHarness.__call__", reentrant |-> FALSE,
                         err |-> "none", ret |-> 0]
    /\ UNCHANGED exceptSingleton

\* compile() goes on to its next part, or returns
CompileNext(self) ==
    /\ harness' = [harness EXCEPT ![cls_harness] = self]
    /\ IF hpc.step < Len(compile_order)
       THEN /\ hpc' = [pc |-> "compile", step |-> hpc.step + 1, todo |-> <<>>,
                       built |-> <<>>]
            /\ UNCHANGED hcall
       ELSE /\ hpc' = [pc |-> "idle", step |-> 0, todo |-> <<>>, built |-> <<>>]
            /\ hcall' = [op |-> "TestHarness", reentrant |-> FALSE, err |-> "none",
                         ret |-> cls_harness]
    /\ UNCHANGED <<cls_harness, compiles>>

\* the dictionaries of the configuration objects, and config.compile(self)
CompileConfigs ==
    /\ hpc.pc = "compile"
    /\ compile_order[hpc.step] = "configs"
    /\ LET self == [harness[cls_harness] EXCEPT
                       !.deployment_configs = harness[cls_harness].config.deployments,
                       !.attrs = @ \cup {"deployment_configs", "environment_configs"}]
           E == self.config.environments
       IN  IF \E e \in DOMAIN E : EnvironmentConfig_compile(self, E[e]) # "none"
           THEN /\ harness' = [harness EXCEPT ![cls_harness] = self]
                /\ hpc' = [pc |-> "idle", step |-> 0, todo |-> <<>>, built |-> <<>>]
                /\ hcall' = [op |-> "TestHarness", reentrant |-> FALSE,
                             err |-> "ValueError", ret |-> 0]
                /\ UNCHANGED <<cls_harness, compiles>>
           ELSE CompileNext(self)
    /\ UNCHANGED exceptSingleton

\* self.deployments = {d.name: d.get_deployment() for d in ...}
CompileDeployments ==
    /\ hpc.pc = "compile"
    /\ compile_order[hpc.step] = "deployments"
    /\ CompileNext([harness[cls_harness] EXCEPT
                       !.deployments = harness[cls_harness].config.deployments,
                       !.attrs = @ \cup {"deployments"}])
    /\ UNCHANGED exceptSingleton

\* self.environments = {e.name: e.get_environment() for e in ...}: the
\* comprehension starts
CompileEnvironments ==
    /\ hpc.pc = "compile"
    /\ compile_order[hpc.step] = "environments"
    /\ hpc' = [hpc EXCEPT !.pc = "environments",
                          !.todo = SeqOf(DOMAIN harness[cls_harness].config.environments)]
    /\ UNCHANGED <<cls_harness, harness, hcall, compiles>>
    /\ UNCHANGED exceptSingleton

\* one e.get_environment() of the comprehension: it calls TestHarness()
\* while the instance is still compiling; an exception of it leaves compile()
\* and the TestHarness() call that constructs the instance
CompileEnvironment ==
    /\ hpc.pc = "environments"
    /\ hpc.todo # <<>>
    /\ LET self == harness[cls_harness]
           e == Head(hpc.todo)
           r == EnvironmentConfig_get_environment(
                    [kind |-> "EnvironmentConfig", name |-> e,
                     deployment |-> self.config.environments[e]],
                    cls_harness, harness)
       IN  /\ hcall' = [op |-> "TestHarness", reentrant |-> TRUE, err |-> r.err,
                        ret |-> TestHarness_call(cls_harness).ret]
           /\ IF r.err # "none"
              THEN hpc' = [pc |-> "idle", step |-> 0, todo |-> <<>>, built |-> <<>>]
              ELSE hpc' = [hpc EXCEPT !.todo = Tail(@),
                                      !.built = [x \in DOMAIN @ \cup {e} |->
                                                   IF x = e THEN r.v ELSE @[x]]]
    /\ UNCHANGED <<cls_harness, harness, compiles>>
    /\ UNCHANGED exceptSingleton

\* the comprehension is complete: the dictionary is assigned
CompileEnvironmentsDone ==
    /\ hpc.pc = "environments"
    /\ hpc.todo = <<>>
    /\ CompileNext([harness[cls_harness] EXCEPT !.environments = hpc.built,
                                                !.attrs = @ \cup {"environments"}])
    /\ UNCHANGED exceptSingleton

\* None passed for a name
NoName == "<none>"

DEFAULT_DEPLOYMENT_NAME == "default"

\* TestHarness.get_environment_config: self.environments.get(name)
TestHarness_get_environment_config(self, name) ==
    IF "environments" \notin self.attrs THEN [err |-> "AttributeError", v |-> NoObject]
    ELSE [err |-> "none",
          v |-> IF name \in DOMAIN self.environments THEN self.environments[name]
                ELSE NoObject]

\* TestHarness.set_environment (requirements_names left at its default)
TestHarness_set_environment(self, instance, instances, environment_name, deployment_name) ==
    LET failed(err) == [err |-> err, self |-> self, ret |-> NoObject]
        activate(cfg) ==
            LET r == EnvironmentConfig_get_environment(cfg, instance, instances) IN
            IF r.err # "none" THEN failed(r.err)
            ELSE [err |-> "none", self |-> [self EXCEPT !.active_environment = r.v],
                  ret |-> r.v]
    IN  IF environment_name # NoName
        THEN LET c == TestHarness_get_environment_config(self, environment_name) IN
             IF c.err # "none" THEN failed(c.err)
             ELSE IF c.v = NoObject THEN failed("ValueError")
             ELSE activate(c.v)
        ELSE LET d == IF deployment_name = NoName THEN DEFAULT_DEPLOYMENT_NAME
                      ELSE deployment_name
             IN  IF "deployment_configs" \notin self.attrs THEN failed("AttributeError")
                 ELSE IF EnvironmentConfig_compile(self, d) # "none"
                      THEN failed("ValueError")
                 ELSE activate([kind |-> "EnvironmentConfig", name |-> d \o "-ad-hoc",
                                deployment |-> d])

SetEnvironment(environment_name, deployment_name) ==
    /\ hpc.pc = "idle"
    /\ cls_harness # 0
    /\ LET r == TestHarness_set_environment(harness[cls_harness], cls_harness, harness,
                                            environment_name, deployment_name)
       IN  /\ harness' = [harness EXCEPT ![cls_harness] = r.self]
           /\ hcall' = [op |-> "set_environment", reentrant |-> FALSE, err |-> r.err,
                        ret |-> r.ret,
                        arg |-> [environment_name |-> environment_name,
                                 deployment_name |-> deployment_name]]
    /\ UNCHANGED <<cls_harness, hpc, compiles>>
    /\ UNCHANGED exceptSingleton

\* the active_environment property: an ad-hoc environment is set when none is
ActiveEnvironment ==
    /\ hpc.pc = "idle"
    /\ cls_harness # 0
    /\ LET self == harness[cls_harness]
           r == IF self.active_environment = NoObject
                THEN TestHarness_set_environment(self, cls_harness, harness, NoName, NoName)
                ELSE [err |-> "none", self |-> self, ret |-> self.active_environment]
       IN  /\ harness' = [harness EXCEPT ![cls_harness] = r.self]
           /\ hcall' = [op |-> "active_environment", reentrant |-> FALSE, err |-> r.err,
                        ret |-> r.self.active_environment]
    /\ UNCHANGED <<cls_harness, hpc, compiles>>
    /\ UNCHANGED exceptSingleton

InitHarness ==
    /\ StoreIdle
    /\ HarnessIdle

NextHarness ==
    \/ \E config \in HarnessConfigs : CallTestHarness(config)
    \/ CompileConfigs
    \/ CompileDeployments
    \/ CompileEnvironments
    \/ CompileEnvironment
    \/ CompileEnvironmentsDone
    \/ \E environment_name \in EnvironmentNames \cup {NoName},
          deployment_name \in DeploymentNames \cup {NoName} :
            SetEnvironment(environment_name, deployment_name)
    \/ ActiveEnvironment

SpecHarness == InitHarness /\ [][NextHarness]_vars

\* C22: set_environment(environment_name=N) for a name N configured in the
\* harness makes that configured environment the active one and returns it (a
\* later active_environment returns the same environment); for a name that is
\* not configured it raises ValueError and leaves the active environment
\* unchanged.
C22_SetEnvironment ==
    [][(hcall'.op = "set_environment" /\ hcall'.arg.environment_name # NoName
        /\ "environments" \in harness[cls_harness].attrs) =>
          LET N == hcall'.arg.environment_name
              before == harness[cls_harness]
              after == harness'[cls_harness]
          IN  IF N \in DOMAIN before.config.environments
              THEN /\ hcall'.err = "none"
                   /\ hcall'.ret = before.environments[N]
                   /\ after.active_environment = hcall'.ret
              ELSE /\ hcall'.err = "ValueError"
                   /\ after.active_environment = before.active_environment]_vars

\* C23: TestHarness is a singleton.  At most one instance is ever constructed
\* and every TestHarness() call that returns, returns it, the calls made by
\* EnvironmentConfig.get_environment while the instance is compiling included;
\* compile() is entered exactly once; and each of those re-entrant calls finds
\* `deployments` populated.
C23_Singleton ==
    /\ Len(harness) <= 1
    /\ compiles <= 1
    /\ cls_harness # 0 => (cls_harness = 1 /\ compiles = 1)
    /\ (hcall.op = "TestHarness" /\ hcall.err = "none") => hcall.ret = cls_harness
    /\ (hcall.op = "TestHarness" /\ hcall.reentrant) =>
          /\ hcall.err = "none"
          /\ "deployments" \in harness[cls_harness].attrs

C23_Witness ==
    /\ hcall.op = "TestHarness"
    /\ hcall.reentrant
    /\ hpc.pc = "environments"
    /\ DOMAIN hpc.built # {}
    /\ hpc.todo # <<>>

(***************************************************************************)
(* LocalDockerTestDeployment: the MySQL container of the deployment.  The  *)
(* container is a resource of the docker daemon; the deployment looks it   *)
(* up by name each time it reads `self.container`.                         *)
(***************************************************************************)
MaxStarts == 3

\* the states docker reports for a container that exists
ContainerStatuses ==
    {"created", "running", "paused", "restarting", "exited", "removing", "dead"}

\* LocalDockerTestDeployment.is_running
is_running(c) == c.status # "absent" /\ c.status = "running"

\* container.stop(): the daemon stops the container, and removes it when it
\* was started with auto_remove
container_stop(c) ==
    IF c.auto_remove THEN NoContainer ELSE [c EXCEPT !.status = "exited"]

\* one iteration of the loop of down(), up to the sleep
down_iteration(c) ==
    IF c.status = "running" THEN container_stop(c)
    ELSE IF c.status = "exited" THEN NoContainer
    ELSE c

DockerStep(c, pc, n) ==
    /\ container' = c
    /\ dpc' = pc
    /\ started' = n
    /\ UNCHANGED exceptDocker

\* down() is called, or up() calls it: no container, and it returns
DownBegin(caller) ==
    /\ dpc.pc = IF caller = "up" THEN "up_down" ELSE "idle"
    /\ DockerStep(container,
                  IF container.status = "absent"
                  THEN [op |-> caller, err |-> "none", caller |-> caller,
                        pc |-> IF caller = "up" THEN "up_run" ELSE "idle"]
                  ELSE [op |-> caller, err |-> "none", caller |-> caller, pc |-> "down_loop"],
                  started)

\* the body of the loop: stop a running container, remove an exited one
DownLoop ==
    /\ dpc.pc = "down_loop"
    /\ DockerStep(down_iteration(container), [dpc EXCEPT !.pc = "down_sleep"], started)

\* time.sleep(1), the container is looked up again, and the loop ends when
\* there is none
DownSleep ==
    /\ dpc.pc = "down_sleep"
    /\ DockerStep(container,
                  IF container.status = "absent"
                  THEN [dpc EXCEPT !.pc = IF dpc.caller = "up" THEN "up_run" ELSE "idle"]
                  ELSE [dpc EXCEPT !.pc = "down_loop"],
                  started)

\* up(): nothing to do when the container is running, otherwise down() first
UpBegin ==
    /\ dpc.pc = "idle"
    /\ started < MaxStarts
    /\ DockerStep(container,
                  [op |-> "up", err |-> "none", caller |-> "up",
                   pc |-> IF is_running(container) THEN "idle" ELSE "up_down"],
                  started)

\* up() after down(): a free port is looked for and the container is run
UpRun(port) ==
    /\ dpc.pc = "up_run"
    /\ IF port = "None"
       THEN DockerStep(container, [dpc EXCEPT !.pc = "idle", !.err = "RuntimeError"],
                       started)
       ELSE DockerStep([status |-> "running", auto_remove |-> TRUE],
                       [dpc EXCEPT !.pc = "idle"], started + 1)

\* the docker daemon: a restarting container comes up, a running one exits
\* (and is removed when started with auto_remove), a removal completes
DaemonRestarts ==
    /\ container.status = "restarting"
    /\ DockerStep([container EXCEPT !.status = "running"], dpc, started)

DaemonExits ==
    /\ container.status = "running"
    /\ DockerStep(container_stop(container), dpc, started)

DaemonRemoves ==
    /\ container.status = "removing"
    /\ DockerStep(NoContainer, dpc, started)

InitDocker ==
    /\ StoreIdle
    /\ ConnectIdle
    /\ SingletonIdle
    /\ EnvIdle
    /\ StackIdle
    /\ container \in {NoContainer} \cup
          {[status |-> st, auto_remove |-> a] : st \in ContainerStatuses, a \in BOOLEAN}
    /\ dpc = [op |-> "none", pc |-> "idle", caller |-> "none", err |-> "none"]
    /\ started = 0

NextDocker ==
    \/ \E caller \in {"down", "up"} : DownBegin(caller)
    \/ DownLoop
    \/ DownSleep
    \/ UpBegin
    \/ \E port \in {"None", "3306"} : UpRun(port)
    \/ DaemonRestarts
    \/ DaemonExits
    \/ DaemonRemoves

\* every call runs on, and the daemon does what it has to do
SpecDocker ==
    /\ InitDocker
    /\ [][NextDocker]_vars
    /\ WF_vars(DownLoop)
    /\ WF_vars(DownSleep)
    /\ WF_vars(\E port \in {"None", "3306"} : UpRun(port))
    /\ WF_vars(DownBegin("up"))
    /\ WF_vars(DaemonRestarts)
    /\ WF_vars(DaemonRemoves)

\* C27: down() terminates from every container state, and when it returns no
\* container with the deployment's container name exists; up() called while
\* the container is running starts no second container.
C27_DownTerminates ==
    /\ [](dpc.pc \in {"down_loop", "down_sleep"} => <>(dpc.pc \notin {"down_loop", "down_sleep"}))
    /\ [][(dpc.pc \in {"down_loop", "down_sleep"} /\ dpc'.pc \notin {"down_loop", "down_sleep"})
             => container'.status = "absent"]_vars
    /\ [][(UpBegin /\ is_running(container)) =>
             (started' = started /\ container' = container /\ dpc'.pc = "idle")]_vars

(***************************************************************************)
(* TestEnvironment: a deployment and the stack components its stack        *)
(* requirements describe.  The deployment's store keeps the registered     *)
(* components; every call reaches the store through deployment.connect().  *)
(***************************************************************************)

MaxRequirements == 2

Flavors == {NoName, "local"}
RequirementConfigurations == {{}, {<<"k", 1>>}}

\* the stack requirements a configuration file can hold
StackRequirements ==
    {[name |-> n, type |-> "orchestrator", flavor |-> f, configuration |-> c] :
        n \in {"", "a"}, f \in Flavors, c \in RequirementConfigurations}

NoComponent == [id |-> 0]

\* client.list_stack_components_by_type: the components of a type, in the
\* order they were registered
RECURSIVE list_stack_components_by_type(_, _)
list_stack_components_by_type(comps, type) ==
    LET of_type == {c \in comps : c.type = type} IN
    IF of_type = {} THEN <<>>
    ELSE LET first == CHOOSE c \in of_type : \A o \in of_type : c.id <= o.id
         IN  <<first>> \o list_stack_components_by_type(comps \ {first}, type)

\* the filter of StackRequirement.find_stack_component
filter_components(self, component) ==
    IF self.name # "" THEN component.name = self.name
    ELSE IF self.flavor \notin {NoName, ""} /\ component.flavor # self.flavor THEN FALSE
    ELSE \A kv \in self.configuration : kv \in component.configuration

\* StackRequirement.find_stack_component
find_stack_component(self, comps) ==
    LET components == SelectSeq(list_stack_components_by_type(comps, self.type),
                                LAMBDA c : filter_components(self, c))
    IN  IF Len(components) = 0 THEN NoComponent ELSE components[1]

\* the name register_component gives a component whose requirement has none
random_name(id) == "pytest-" \o ToString(id)

\* A register_component that leaves the requirement's configuration out.
register_component_NoConfiguration(self, comps) ==
    IF self.flavor = NoName THEN [err |-> "ValueError", comps |-> comps, model |-> NoComponent]
    ELSE LET id == CHOOSE i \in 1..(Cardinality(comps) + 1) : \A c \in comps : c.id # i
             model == [id |-> id,
                       name |-> IF self.name # "" THEN self.name ELSE random_name(id),
                       type |-> self.type, flavor |-> self.flavor,
                       configuration |-> {}]
         IN  [err |-> "none", comps |-> comps \cup {model}, model |-> model]

\* StackRequirement.register_component
register_component(self, comps) ==
    IF self.flavor = NoName THEN [err |-> "ValueError", comps |-> comps, model |-> NoComponent]
    ELSE LET id == CHOOSE i \in 1..(Cardinality(comps) + 1) : \A c \in comps : c.id # i
             model == [id |-> id,
                       name |-> IF self.name # "" THEN self.name ELSE random_name(id),
                       type |-> self.type, flavor |-> self.flavor,
                       configuration |-> self.configuration]
         IN  [err |-> "none", comps |-> comps \cup {model}, model |-> model]

\* deployment.is_running: the default deployment always is
deployment_is_running(d) == d.kind = "default" \/ d.running

\* deployment.get_store_config
get_store_config(d) ==
    IF d.kind = "default" THEN "None"
    ELSE IF ~d.running THEN "RuntimeError"
    ELSE "url"

\* `with self.deployment.connect() as client:` up to the body
deployment_connect(w) == connect_enter(w, w.deployment.kind, get_store_config(w.deployment))

\* what can go wrong in a call, outside the harness's own code: a missing
\* software requirement, no free port for MySQL, a stack component whose
\* provisioning fails
Faults == {"none", "software", "port", "component"}

\* deployment.up()
deployment_up(w, fault) ==
    IF w.deployment.kind = "default" THEN
        LET c == deployment_connect(w) IN
        [err |-> "none", w |-> connect_exit(c.w)]
    ELSE IF w.deployment.running THEN [err |-> "none", w |-> w]
    ELSE IF fault = "port" THEN [err |-> "RuntimeError", w |-> w]
    ELSE [err |-> "none", w |-> [w EXCEPT !.deployment.running = TRUE]]

\* deployment.down(): the store goes with the deployment
deployment_down(w) ==
    IF w.deployment.kind = "default" THEN
        LET c == deployment_connect(w) IN
        connect_exit([c.w EXCEPT !.components = {}])
    ELSE IF ~w.deployment.running THEN w
    ELSE [w EXCEPT !.deployment.running = FALSE, !.components = {}]

\* BaseTestDeployment.cleanup
deployment_cleanup(w) ==
    LET down == deployment_down(w) IN
    IF w.deployment.kind \notin down.config_dirs THEN down
    ELSE IF down.deployment.locked THEN down
    ELSE [down EXCEPT !.config_dirs = @ \ {w.deployment.kind}]

\* the first loop of provision: find or register a component for every
\* stack requirement
RECURSIVE provision_components(_, _, _)
provision_components(reqs, comps, found) ==
    IF Len(reqs) = 0 THEN [err |-> "none", comps |-> comps, components |-> found]
    ELSE LET component_model == find_stack_component(Head(reqs), comps) IN
         IF component_model # NoComponent
         THEN provision_components(Tail(reqs), comps, Append(found, component_model))
         ELSE LET r == register_component(Head(reqs), comps) IN
              IF r.err # "none" THEN [err |-> r.err, comps |-> r.comps, components |-> found]
              ELSE provision_components(Tail(reqs), r.comps, Append(found, r.model))

\* TestEnvironment.provision
TestEnvironment_provision(w, reqs, fault) ==
    IF fault = "software" THEN [err |-> "RuntimeError", w |-> w]
    ELSE LET up == deployment_up(w, fault) IN
         IF up.err # "none" THEN up
         ELSE LET c == deployment_connect(up.w) IN
              IF c.err # "none" THEN c
              ELSE LET r == provision_components(reqs, c.w.components, <<>>)
                       in_body == [c.w EXCEPT !.components = r.comps]
                   IN  IF r.err # "none" THEN [err |-> r.err, w |-> connect_raise(in_body)]
                       ELSE IF fault = "component" /\ Len(r.components) > 0
                       THEN [err |-> "RuntimeError", w |-> connect_raise(in_body)]
                       ELSE [err |-> "none", w |-> connect_exit(in_body)]

\* TestEnvironment.is_provisioned
TestEnvironment_is_provisioned(w, reqs) ==
    IF ~deployment_is_running(w.deployment) THEN [err |-> "none", ret |-> FALSE, w |-> w]
    ELSE LET c == deployment_connect(w) IN
         IF c.err # "none" THEN [err |-> c.err, ret |-> FALSE, w |-> c.w]
         ELSE [err |-> "none",
               ret |-> \A i \in DOMAIN reqs :
                           find_stack_component(reqs[i], c.w.components) # NoComponent,
               w |-> connect_exit(c.w)]

\* the last loop of deprovision: delete_stack_component for every component
\* found; the store raises KeyError for a component it does not hold
RECURSIVE delete_stack_components(_, _)
delete_stack_components(components, comps) ==
    IF Len(components) = 0 THEN [err |-> "none", comps |-> comps]
    ELSE IF Head(components) \notin comps THEN [err |-> "KeyError", comps |-> comps]
    ELSE delete_stack_components(Tail(components), comps \ {Head(components)})

\* TestEnvironment.deprovision
TestEnvironment_deprovision(w, reqs) ==
    IF ~deployment_is_running(w.deployment) THEN [err |-> "none", w |-> w]
    ELSE LET c == deployment_connect(w) IN
         IF c.err # "none" THEN c
         ELSE LET all == [i \in DOMAIN reqs |-> find_stack_component(reqs[i], c.w.components)]
                  components == SelectSeq(all, LAMBDA m : m # NoComponent)
                  r == delete_stack_components(components, c.w.components)
                  in_body == [c.w EXCEPT !.components = r.comps]
              IN  IF r.err # "none" THEN [err |-> r.err, w |-> connect_raise(in_body)]
                  ELSE [err |-> "none", w |-> connect_exit(in_body)]

\* TestEnvironment.cleanup
TestEnvironment_cleanup(w, reqs) ==
    LET d == TestEnvironment_deprovision(w, reqs) IN
    IF d.err # "none" THEN d
    ELSE [err |-> "none", w |-> deployment_cleanup(d.w)]

\* the teardown both ends of setup select by their flags, with what it did
teardown(w, reqs, tear_down, cleanup_stacks) ==
    IF tear_down THEN
        LET r == TestEnvironment_cleanup(w, reqs) IN
        [err |-> r.err, w |-> r.w, did |-> IF r.err = "none" THEN <<"deprovision", "cleanup">>
                                           ELSE <<"deprovision">>]
    ELSE IF cleanup_stacks THEN
        LET r == TestEnvironment_deprovision(w, reqs) IN
        [err |-> r.err, w |-> r.w, did |-> <<"deprovision">>]
    ELSE [err |-> "none", w |-> w, did |-> <<>>]

\* a call of environment.provision()
Provision(fault) ==
    /\ epc.pc = "idle"
    /\ \E r \in {TestEnvironment_provision(World, requirements, fault)} :
       /\ SetWorld(r.w)
       /\ elog' = [op |-> "provision", err |-> r.err, did |-> <<>>, raised |-> r.err]
    /\ UNCHANGED <<requirements, epc>>
    /\ UNCHANGED <<storeVars, singletonVars, dockerVars, stackVars>>

\* a call of environment.deprovision()
Deprovision ==
    /\ epc.pc = "idle"
    /\ \E r \in {TestEnvironment_deprovision(World, requirements)} :
       /\ SetWorld(r.w)
       /\ elog' = [op |-> "deprovision", err |-> r.err, did |-> <<"deprovision">>,
                   raised |-> r.err]
    /\ UNCHANGED <<requirements, epc>>
    /\ UNCHANGED <<storeVars, singletonVars, dockerVars, stackVars>>

\* `with environment.setup(tear_down, cleanup_stacks) as client:` up to the
\* yield, or to the exception that leaves setup before it
SetupEnter(tear_down, cleanup_stacks, fault) ==
    /\ epc.pc = "idle"
    /\ contexts = <<>>
    /\ \E p \in {TestEnvironment_provision(World, requirements, fault)} :
       \E t \in {IF p.err = "none" THEN [err |-> "none", w |-> p.w, did |-> <<>>]
                 ELSE teardown(p.w, requirements, tear_down, cleanup_stacks)} :
       \E c \in {deployment_connect(t.w)} :
           IF t.err # "none" THEN
               /\ SetWorld(t.w)
               /\ epc' = [pc |-> "idle"]
               /\ elog' = [op |-> "setup", err |-> p.err, did |-> t.did, raised |-> t.err]
           ELSE IF c.err # "none" THEN
               /\ SetWorld(c.w)
               /\ epc' = [pc |-> "idle"]
               /\ elog' = [op |-> "setup", err |-> p.err, did |-> t.did, raised |-> c.err]
           ELSE
               /\ SetWorld(c.w)
               /\ epc' = [pc |-> "body", tear_down |-> tear_down,
                          cleanup_stacks |-> cleanup_stacks]
               /\ elog' = [op |-> "setup", err |-> p.err, did |-> t.did, raised |-> "none"]
    /\ UNCHANGED requirements
    /\ UNCHANGED <<storeVars, singletonVars, dockerVars, stackVars>>

\* the body of the with statement completes: connect is left, then the
\* teardown the flags select runs
SetupBodyCompletes ==
    /\ epc.pc = "body"
    /\ \E t \in {teardown(connect_exit(World), requirements, epc.tear_down,
                          epc.cleanup_stacks)} :
       /\ SetWorld(t.w)
       /\ elog' = [op |-> "exit", err |-> "none", did |-> t.did, raised |-> t.err]
    /\ epc' = [pc |-> "idle"]
    /\ UNCHANGED requirements
    /\ UNCHANGED <<storeVars, singletonVars, dockerVars, stackVars>>

\* the body raises: the exception is raised at the yield of connect and then
\* at the yield of setup, and nothing after either yield runs
SetupBodyRaises ==
    /\ epc.pc = "body"
    /\ SetWorld(connect_raise(World))
    /\ elog' = [op |-> "exit", err |-> "Exception", did |-> <<>>, raised |-> "Exception"]
    /\ epc' = [pc |-> "idle"]
    /\ UNCHANGED requirements
    /\ UNCHANGED <<storeVars, singletonVars, dockerVars, stackVars>>

RequirementLists ==
    UNION {[1..n -> StackRequirements] : n \in 0..MaxRequirements}

InitEnv ==
    /\ StoreIdle
    /\ ConnectIdle
    /\ SingletonIdle
    /\ DockerIdle
    /\ StackIdle
    /\ env_deployment \in {[kind |-> "default", running |-> TRUE, locked |-> l] : l \in BOOLEAN}
                           \cup {[kind |-> "docker", running |-> r, locked |-> FALSE] :
                                    r \in BOOLEAN}
    /\ store_components \in {{}, {[id |-> 1, name |-> "a", type |-> "orchestrator",
                                   flavor |-> "local", configuration |-> {<<"k", 2>>}]}}
    /\ requirements \in RequirementLists
    /\ epc = [pc |-> "idle"]
    /\ elog = [op |-> "init", err |-> "none", did |-> <<>>, raised |-> "none"]

NextEnv ==
    \/ \E fault \in Faults : Provision(fault)
    \/ Deprovision
    \/ \E tear_down \in BOOLEAN, cleanup_stacks \in BOOLEAN, fault \in Faults :
          SetupEnter(tear_down, cleanup_stacks, fault)
    \/ SetupBodyCompletes
    \/ SetupBodyRaises

SpecEnv == InitEnv /\ [][NextEnv]_vars

\* C25: after a successful provision() the environment is provisioned, and a
\* second provision() registers no component.
C25_ProvisionIdempotent ==
    [][(elog'.op = "provision" /\ elog'.err = "none") =>
          /\ TestEnvironment_is_provisioned(World', requirements').ret
          /\ \A fault \in Faults :
                TestEnvironment_provision(World', requirements', fault).w.components
                    = store_components']_vars

\* a successful provision() that registered a component for a requirement
\* with a configuration, next to one it reused
C25_Witness ==
    /\ elog.op = "provision"
    /\ elog.err = "none"
    /\ Len(requirements) = 2
    /\ \E c \in store_components : c.id = 2 /\ c.configuration # {}
    /\ \E i \in DOMAIN requirements : find_stack_component(requirements[i], store_components).id = 1

\* C30: when provision() raises in setup, the body is not entered and an
\* exception reaches the caller.
C30_BodyOnlyIfProvisioned ==
    [][(epc.pc = "idle" /\ elog'.op = "setup" /\ elog'.err # "none") =>
          (epc'.pc = "idle" /\ elog'.raised # "none")]_vars

\* C24: when the setup context is left, tear_down=True has cleaned the
\* environment up (stacks deprovisioned, deployment down, local files
\* removed); tear_down=False with cleanup_stacks=True has deprovisioned the
\* stacks and left the deployment alone; with both False nothing changed.
C24_TeardownOnExit ==
    [][(epc.pc = "body" /\ epc'.pc = "idle") =>
          IF epc.tear_down THEN
              /\ elog'.did = <<"deprovision", "cleanup">>
              /\ store_components' = {}
              /\ env_deployment.kind \notin config_dirs'
              /\ (env_deployment.kind = "docker" => ~env_deployment'.running)
          ELSE IF epc.cleanup_stacks THEN
              /\ elog'.did = <<"deprovision">>
              /\ \A i \in DOMAIN requirements :
                    find_stack_component(requirements[i], store_components') = NoComponent
              /\ env_deployment' = env_deployment
          ELSE
              /\ elog'.did = <<>>
              /\ store_components' = store_components
              /\ env_deployment' = env_deployment]_vars

(***************************************************************************)
(* TestConfig.setup_test_stack: a temporary stack for a test, registered   *)
(* in the store and made the client's active stack while the test runs.    *)
(***************************************************************************)

MaxTestStacks == 3

\* the stack requirements of a test configuration
TestStackRequirements ==
    {[name |-> "a", type |-> "orchestrator", flavor |-> "local", configuration |-> {}],
     [name |-> "", type |-> "artifact_store", flavor |-> "local", configuration |-> {}],
     [name |-> "", type |-> "orchestrator", flavor |-> NoName,
      configuration |-> {<<"k", 1>>}]}

\* the first loop of setup_test_stack: one component per requirement, no
\* two of one type
RECURSIVE test_stack_components(_, _, _)
test_stack_components(reqs, comps, types) ==
    IF Len(reqs) = 0 THEN "none"
    ELSE LET component == find_stack_component(Head(reqs), comps) IN
         IF component = NoComponent THEN "RuntimeError"
         ELSE IF component.type \in types THEN "RuntimeError"
         ELSE test_stack_components(Tail(reqs), comps, types \cup {component.type})

\* client.register_stack: the store gives the stack an id of its own
register_stack(registered) ==
    CHOOSE i \in 1..(Cardinality(registered) + 1) : i \notin registered

\* what provisioning the active stack can do
StackFaults == {"none", "provision", "resume"}

\* `with test_config.setup_test_stack(client, module, cleanup) as stack:` up
\* to the yield, or to the exception that leaves it before
TestStackEnter(cleanup, fault) ==
    /\ tpc.pc = "idle"
    /\ Cardinality(stacks) < MaxTestStacks
    /\ \E found \in {test_stack_components(requirements, store_components, {})} :
       \E stack \in {register_stack(stacks)} :
          IF found # "none" THEN
              /\ elog' = [op |-> "setup_test_stack", err |-> found, did |-> <<>>,
                          raised |-> found]
              /\ UNCHANGED stackVars
          ELSE IF fault # "none" THEN
              /\ stacks' = IF cleanup THEN stacks ELSE stacks \cup {stack}
              /\ active_stack' = stack
              /\ tpc' = [pc |-> "idle"]
              /\ elog' = [op |-> "setup_test_stack", err |-> "Exception",
                          did |-> IF cleanup
                                  THEN <<"register_stack", "activate_stack", "delete_stack">>
                                  ELSE <<"register_stack", "activate_stack">>,
                          raised |-> "Exception"]
          ELSE
              /\ stacks' = stacks \cup {stack}
              /\ active_stack' = stack
              /\ tpc' = [pc |-> "body", stack |-> stack,
                         current_active_stack |-> active_stack, cleanup |-> cleanup]
              /\ elog' = [op |-> "setup_test_stack", err |-> "none",
                          did |-> <<"register_stack", "activate_stack">>, raised |-> "none"]
    /\ UNCHANGED <<env_deployment, store_components, requirements, epc>>
    /\ UNCHANGED <<storeVars, connectVars, singletonVars, dockerVars>>

\* the test body completes: the previous stack is activated and the
\* temporary one deleted
TestStackBodyCompletes ==
    /\ tpc.pc = "body"
    /\ active_stack' = tpc.current_active_stack
    /\ stacks' = IF tpc.cleanup THEN stacks \ {tpc.stack} ELSE stacks
    /\ tpc' = [pc |-> "idle"]
    /\ elog' = [op |-> "exit", err |-> "none",
                did |-> IF tpc.cleanup THEN <<"activate_stack", "delete_stack">>
                        ELSE <<"activate_stack">>,
                raised |-> "none"]
    /\ UNCHANGED <<env_deployment, store_components, requirements, epc>>
    /\ UNCHANGED <<storeVars, connectVars, singletonVars, dockerVars>>

\* the test body raises: the exception is raised at the yield, and nothing
\* after it runs
TestStackBodyRaises ==
    /\ tpc.pc = "body"
    /\ tpc' = [pc |-> "idle"]
    /\ elog' = [op |-> "exit", err |-> "Exception", did |-> <<>>, raised |-> "Exception"]
    /\ UNCHANGED <<stacks, active_stack>>
    /\ UNCHANGED <<env_deployment, store_components, requirements, epc>>
    /\ UNCHANGED <<storeVars, connectVars, singletonVars, dockerVars>>

InitTestStack ==
    /\ StoreIdle
    /\ ConnectIdle
    /\ SingletonIdle
    /\ DockerIdle
    /\ env_deployment = [kind |-> "default", running |-> TRUE, locked |-> FALSE]
    /\ store_components \in
          SUBSET {[id |-> 1, name |-> "a", type |-> "orchestrator", flavor |-> "local",
                   configuration |-> {<<"k", 1>>}],
                  [id |-> 2, name |-> "b", type |-> "artifact_store", flavor |-> "local",
                   configuration |-> {}]}
    /\ requirements \in UNION {[1..n -> TestStackRequirements] : n \in 0..MaxRequirements}
    /\ epc = [pc |-> "idle"]
    /\ elog = [op |-> "init", err |-> "none", did |-> <<>>, raised |-> "none"]
    /\ stacks \in {{1}, {1, 2}}
    /\ active_stack \in stacks
    /\ tpc = [pc |-> "idle"]

NextTestStack ==
    \/ \E cleanup \in BOOLEAN, fault \in StackFaults : TestStackEnter(cleanup, fault)
    \/ TestStackBodyCompletes
    \/ TestStackBodyRaises

SpecTestStack == InitTestStack /\ [][NextTestStack]_vars

\* C26: once setup_test_stack has registered and activated its temporary stack
\* and the context is left, after the body or because provisioning the stack
\* failed, the stack active before is active again and, with cleanup, the
\* temporary stack is not in the store.
C26_TestStackRestored ==
    /\ [][(tpc.pc = "body" /\ tpc'.pc = "idle") =>
             /\ active_stack' = tpc.current_active_stack
             /\ (tpc.cleanup => tpc.stack \notin stacks')]_vars
    /\ [][(tpc.pc = "idle" /\ tpc'.pc = "idle" /\ elog'.op = "setup_test_stack"
              /\ Len(elog'.did) >= 2 /\ elog' # elog) =>
             /\ active_stack' = active_stack
             /\ (Len(elog'.did) = 3 => register_stack(stacks) \notin stacks')]_vars

====
